---- MODULE Spec2Model ----
(***************************************************************************)
(* AFNMS: the model router (src/src/model_router.py), the adapters        *)
(* (src/src/ai_adapters/*.py) and the response parser of the adapter base *)
(* class (src/src/ai_adapters/base_adapter.py).                           *)
(*                                                                         *)
(* Conventions of the model                                                *)
(*  - scores (impact_score, confidence) are floats in the code; the model *)
(*    counts them in tenths, so 0.5 is 5 and the interval [0,1] is 0..10. *)
(*  - a text is a sequence of tokens separated by single blanks. A token  *)
(*    is a word, an opening brace, a closing brace, or the placeholder AT *)
(*    standing for the member list of a JSON object ("k": v, ...), whose   *)
(*    members are held beside the token sequence (field body).            *)
(*  - a JSON value is a record [ty, n, s]: ty is its type, n its number   *)
(*    (tenths) or, for a string, its length in characters, s its words    *)
(*    (string) or its items (list).                                       *)
(*  - the Chinese markers of the keyword lists are written in pinyin:     *)
(*    zhongda, qingwei, jiji, xiaoji.                                     *)
(*                                                                         *)
(* Specifications                                                          *)
(*  - Spec: calls of ModelRouter.analyze_news, one after the other.       *)
(*  - SpecHealth: Spec with force_health_check between the calls and the  *)
(*    cancellation of a call.                                             *)
(*  - SpecReload: construction on configurations with flawed descriptors, *)
(*    calls of analyze_news, and reload_config between the calls.         *)
(*  - SpecClock: calls of analyze_news with the clock moving by about the *)
(*    length of the 300 s window.                                          *)
(*  - SpecOverlap: two coroutines calling analyze_news at once.           *)
(*  - SpecMidReload: reload_config while a call of analyze_news awaits an *)
(*    adapter.                                                             *)
(*  - SpecNorm: _parse_response applied to every raw text.                *)
(*  - SpecUsage: analyze_news of one adapter and its usage statistics.    *)
(*  - SpecCache: set, get, delete and cleanup_expired of CacheManager.    *)
(***************************************************************************)
EXTENDS Integers, Sequences, FiniteSets, TLC

VARIABLES
    raw,            \* the raw backend text handed to _parse_response
    parsed,         \* the outcome of _parse_response(raw), or NotParsed
    config,         \* ConfigManager.ai_config['models'], in file order
    adapters,       \* ModelRouter.adapters: id -> adapter state (built or not)
    routing_stats,  \* ModelRouter.routing_stats
    now,            \* time.time()
    pc,             \* where the analyze_news coroutine of the router stands
    current_time,   \* local of _get_healthy_adapters, read before the await
    pending,        \* health-check tasks of the running gather not yet finished
    candidates,     \* healthy_adapters of the running call, as ids
    idx,            \* position of the for loop in candidates
    attempts,       \* ghost: the adapter calls of the running or last call,
                    \* each with the adapter's usage_stats and health fields
                    \* before and after, the construction round of the object
                    \* called and the calls of reload_config when it ended
    ret,            \* the outcome of the last call that returned, or NotReturned
    entry_stats,    \* ghost: routing_stats when the running or last call began
    verdicts,       \* ghost: what each probe of the running gather saw, or
                    \* the flag its adapter had when the gather began
    reloads,        \* ghost: the calls of reload_config so far
    instance_of,    \* ghost: the construction round each adapter object is from
    inflight,       \* ghost: the adapters whose analyze_news the running call
                    \* has awaited and that have not ended
    refreshes,      \* ghost: the calls of _perform_health_checks analyze_news
                    \* made, each with its time and the adapters it made a
                    \* task for (between the calls only the time of the last
                    \* one is kept)
    other,          \* a second analyze_news coroutine on the same router: its
                    \* position and its locals
    held,           \* the adapter objects in healthy_adapters of the running
                    \* call: for each id the construction round of the object
    usage_stats,    \* BaseAIAdapter.usage_stats of one OpenAIAdapter used on
                    \* its own, with its token counter and its average
    calls,          \* ghost: the calls of analyze_news made on that adapter,
                    \* each with the reply of the API and the time it took
    memory_cache,   \* CacheManager.memory_cache: cache key -> data
    memory_cache_timestamps,
                    \* CacheManager.memory_cache_timestamps: cache key -> time
    cache_files,    \* the files of CacheManager.cache_dir: cache key -> content
    last_set,       \* ghost: for each cache key the last call of set
    got             \* ghost: the last call of get, with what it returned

uvars == <<usage_stats, calls>>
cvars == <<memory_cache, memory_cache_timestamps, cache_files, last_set, got>>
nvars == <<raw, parsed, usage_stats, calls, memory_cache,
           memory_cache_timestamps, cache_files, last_set, got>>
gvars == <<verdicts, reloads, instance_of>>
ovars == <<inflight, refreshes, other, held>>
rvars == <<config, adapters, routing_stats, now, pc, current_time, pending,
           candidates, idx, attempts, ret, entry_stats, verdicts, reloads,
           instance_of, inflight, refreshes, other, held>>
vars  == <<raw, parsed, config, adapters, routing_stats, now, pc, current_time,
           pending, candidates, idx, attempts, ret, entry_stats, verdicts,
           reloads, instance_of, inflight, refreshes, other, held,
           usage_stats, calls, memory_cache, memory_cache_timestamps,
           cache_files, last_set, got>>

---------------------------------------------------------------------------
(* Bounds of the model *)

\* longest token sequence of a raw text
MaxLen == 3
\* a JSON member list differs from the well-formed one in at most this many members
MaxDev == 2
\* calls of ModelRouter.analyze_news in one behaviour
MaxRoutes == 2
\* the clock starts here (seconds; time.time() is far above the 300 s window)
StartTime == 1000
\* the clock advances in steps of TickStep seconds (beyond the 300 s window),
\* MaxTicks times
TickStep == 400
MaxTicks == 1
\* calls of ModelRouter.reload_config in one behaviour
MaxReloads == 1
\* seconds a gather of health checks takes (a probe times out after 10 s)
ProbeSeconds == 5
\* the clock of SpecClock runs from StartTime for this many seconds
ClockSpan == 610

---------------------------------------------------------------------------
(* Tokens, words and their characters *)

LB == "{"
RB == "}"
AT == "@"

\* the words a text is built from (LONGPROSE stands for 150 characters of
\* prose without any marker)
TextWords == {"significant", "CRITICAL", "smaller", "zhongda", "qingwei",
              "bullish", "bearish", "upgrade", "downturn", "movement", "LONGPROSE"}

Alphabet == {LB, RB, AT} \cup TextWords

\* str.lower() on one word
Lower(w) == IF w = "CRITICAL" THEN "critical" ELSE w

\* marker in word: Python's substring test on one (lowercased) word
SubstringOf(marker, w) ==
    \/ marker = w
    \/ <<marker, w>> \in {<<"small", "smaller">>, <<"up", "upgrade">>,
                          <<"down", "downturn">>}

\* len() of one token; the member list of an object is taken as 120 characters
CharLen(tok) ==
    CASE tok \in {LB, RB} -> 1
      [] tok = AT -> 120
      [] tok \in {"zhongda", "qingwei", "jiji", "xiaoji"} -> 2
      [] tok \in {"up"} -> 2
      [] tok \in {"hold", "high", "down"} -> 4
      [] tok \in {"growth"} -> 6
      [] tok \in {"smaller", "bullish", "bearish", "upgrade", "neutral"} -> 7
      [] tok \in {"CRITICAL", "critical", "downturn", "movement", "expected",
                  "positive", "negative"} -> 8
      [] tok = "significant" -> 11
      [] tok = "LONGPROSE" -> 150
      [] OTHER -> 5

RECURSIVE SumLen(_)
SumLen(ws) == IF ws = <<>> THEN 0 ELSE CharLen(Head(ws)) + SumLen(Tail(ws))

\* len() of a token sequence joined by single blanks
StrLen(ws) == IF ws = <<>> THEN 0 ELSE SumLen(ws) + (Len(ws) - 1)

Range(f) == {f[i] : i \in DOMAIN f}

---------------------------------------------------------------------------
(* JSON values *)

Num(x)    == [ty |-> "num",     n |-> x, s |-> <<>>]
NumStr(x) == [ty |-> "numstr",  n |-> x, s |-> <<>>]   \* a string such as "0.7"
Str(ws)   == [ty |-> "str",     n |-> StrLen(ws), s |-> ws]
Lst(its)  == [ty |-> "list",    n |-> 0, s |-> its]
Null      == [ty |-> "null",    n |-> 0, s |-> <<>>]
Missing   == [ty |-> "missing", n |-> 0, s |-> <<>>]   \* the key is not in the object

\* Python truth value (the operand of "not x")
Truthy(v) ==
    CASE v.ty = "num"  -> v.n # 0
      [] v.ty = "null" -> FALSE
      [] v.ty = "numstr" -> TRUE
      [] OTHER -> v.s # <<>>

Keys == {"impact_score", "market_prediction", "trading_suggestion",
         "sentiment", "confidence", "key_points"}

\* the object the prompt asks for, base_adapter.py:85-92
WellFormedBody ==
    [impact_score       |-> Num(7),
     market_prediction  |-> Str(<<"growth">>),
     trading_suggestion |-> Str(<<"hold">>),
     sentiment          |-> Str(<<"negative">>),
     confidence         |-> Num(8),
     key_points         |-> Lst(<<"p1", "p2", "p3">>)]

EmptyBody == [k \in Keys |-> Missing]

\* the values a member may take instead of the well-formed one
Alternatives(k) ==
    CASE k = "impact_score" ->
            {Missing, Null, Num(15), Num(-2), Num(10), Num(0), NumStr(6),
             Str(<<"high">>)}
      [] k = "confidence" -> {Missing, Null, Num(12), Num(-1), Num(10)}
      [] k = "sentiment" ->
            {Missing, Null, Str(<<"positive">>), Str(<<"neutral">>),
             Str(<<"bullish">>)}
      [] k = "market_prediction" -> {Missing, Null, Str(<<>>)}
      [] k = "trading_suggestion" -> {Missing, Str(<<>>)}
      [] k = "key_points" -> {Missing, Lst(<<>>)}

AllAlternatives == UNION {Alternatives(k) : k \in Keys}

\* well-formed member lists with at most MaxDev members replaced
Bodies ==
    UNION {
        {[k \in Keys |-> IF k \in D THEN f[k] ELSE WellFormedBody[k]] :
            f \in {g \in [D -> AllAlternatives] : \A k \in D : g[k] \in Alternatives(k)}} :
        D \in {E \in SUBSET Keys : Cardinality(E) <= MaxDev}}

RECURSIVE SeqsUpTo(_, _)
SeqsUpTo(S, n) ==
    IF n = 0 THEN {<<>>}
    ELSE LET shorter == SeqsUpTo(S, n - 1)
         IN  shorter \cup {Append(q, x) : q \in {r \in shorter : Len(r) = n - 1}, x \in S}

\* the example text "significant movement expected"
SignificantText == [skel |-> <<"significant", "movement", "expected">>,
                    body |-> WellFormedBody]

\* every token sequence up to MaxLen
Skeletons == SeqsUpTo(Alphabet, MaxLen)

\* an object with prose before and after it
Framings ==
    {pre \o <<LB, AT, RB>> \o post :
        pre \in SeqsUpTo(TextWords, MaxLen - 3), post \in SeqsUpTo(TextWords, MaxLen - 3)}
    \cap Skeletons

\* an object followed by text that holds a closing brace
ObjectThenBrace == <<LB, AT, RB, "movement", RB>>

\* prose made of the eight sentiment markers of _create_fallback_result
\* (jiji and xiaoji stand for the two Chinese ones)
SentimentProse ==
    {<<"jiji">>, <<"xiaoji">>, <<"xiaoji", "jiji">>, <<"positive">>,
     <<"negative">>, <<"negative", "positive">>, <<"up">>, <<"down">>,
     <<"down", "up">>}

\* the raw texts a backend may answer with: every token sequence up to MaxLen
\* (its member list, where it has one, the well-formed one), every
\* member list of Bodies as an object with prose around it or a brace after
\* it, the example text and the prose of the sentiment markers; built from
\* the pairs of a token sequence and a member list
Texts ==
    {[skel |-> p[1], body |-> p[2]] :
        p \in (Skeletons \cup SentimentProse \cup {SignificantText.skel})
                  \X {WellFormedBody}
              \cup (Framings \cup {ObjectThenBrace}) \X Bodies}

---------------------------------------------------------------------------
(* AIAnalysisResult and the outcome of a call that may raise *)

\* dataclass AIAnalysisResult; via is a ghost field naming who built the value
Result(i, mp, ts, se, c, kp, via) ==
    [impact_score |-> i, market_prediction |-> mp, trading_suggestion |-> ts,
     sentiment |-> se, confidence |-> c, key_points |-> kp, via |-> via]

NoResult == Result(0, Null, Null, Null, 0, Null, "none")

\* a call returns a value or raises an exception
Return(v) == [exc |-> "none", res |-> v]
Raise(e)  == [exc |-> e, res |-> NoResult]

---------------------------------------------------------------------------
(* BaseAIAdapter._create_fallback_result: the keyword heuristics *)

ImpactHighMarkers == {"zhongda", "significant", "major", "critical"}
ImpactLowMarkers  == {"qingwei", "minor", "limited", "small"}
PositiveMarkers   == {"jiji", "positive", "bullish", "up"}
NegativeMarkers   == {"xiaoji", "negative", "bearish", "down"}

HighImpact    == 8
LowImpact     == 3
NeutralImpact == 5
HeuristicConfidence == 4
PreviewLimit  == 300
EllipsisLen   == 3

\* the words of the members of an object that are text
BodyWords(body) ==
    UNION {Range(body[k].s) : k \in {j \in Keys : body[j].ty \in {"str", "list"}}}

\* the words of a raw text
WordsOf(response) ==
    (Range(response.skel) \ {LB, RB, AT})
    \cup (IF AT \in Range(response.skel) THEN BodyWords(response.body) ELSE {})

\* response.lower(), as the set of its words
LowerWords(response) == {Lower(w) : w \in WordsOf(response)}

\* any(word in response_lower for word in markers)
ContainsAny(lowered, markers) ==
    \E w \in lowered, m \in markers : SubstringOf(m, w)

\* the tokens that begin within the first limit characters
RECURSIVE TakeChars(_, _)
TakeChars(ws, limit) ==
    IF ws = <<>> \/ limit <= 0 THEN <<>>
    ELSE <<Head(ws)>> \o TakeChars(Tail(ws), limit - CharLen(Head(ws)) - 1)

\* response[:300] + "..." if len(response) > 300 else response
Preview(response) ==
    IF StrLen(response.skel) > PreviewLimit
    THEN [ty |-> "str", n |-> PreviewLimit + EllipsisLen,
          s |-> TakeChars(response.skel, PreviewLimit) \o <<"...">>]
    ELSE Str(response.skel)

\* the two keyword lists tested in the other order
HeuristicImpactLowFirst(lowered) ==
    IF ContainsAny(lowered, ImpactLowMarkers) THEN LowImpact
    ELSE IF ContainsAny(lowered, ImpactHighMarkers) THEN HighImpact
    ELSE NeutralImpact

HeuristicImpact(lowered) ==
    IF ContainsAny(lowered, ImpactHighMarkers) THEN HighImpact
    ELSE IF ContainsAny(lowered, ImpactLowMarkers) THEN LowImpact
    ELSE NeutralImpact

\* the two sentiment lists tested in the other order
HeuristicSentimentNegativeFirst(lowered) ==
    IF ContainsAny(lowered, NegativeMarkers) THEN "negative"
    ELSE IF ContainsAny(lowered, PositiveMarkers) THEN "positive"
    ELSE "neutral"

HeuristicSentiment(lowered) ==
    IF ContainsAny(lowered, PositiveMarkers) THEN "positive"
    ELSE IF ContainsAny(lowered, NegativeMarkers) THEN "negative"
    ELSE "neutral"

_create_fallback_result(response) ==
    LET response_lower == LowerWords(response)
    IN  Result(HeuristicImpact(response_lower),
               Preview(response),
               Str(<<"invest", "carefully">>),
               Str(<<HeuristicSentiment(response_lower)>>),
               HeuristicConfidence,
               Lst(<<"parse_error_review">>),
               "heuristic")

---------------------------------------------------------------------------
(* BaseAIAdapter._parse_response *)

DefaultImpact     == 5
DefaultConfidence == 5

\* re.search(r'\{.*\}', response, re.DOTALL): from the first opening brace to
\* the last closing brace after it
json_match(skel) ==
    LET opens  == {i \in DOMAIN skel : skel[i] = LB}
        closes == {j \in DOMAIN skel : skel[j] = RB}
    IN  IF \E i \in opens, j \in closes : i < j
        THEN LET first == CHOOSE i \in opens : \A k \in opens : i <= k
                 last  == CHOOSE j \in closes : \A k \in closes : k <= j
             IN  [found |-> TRUE, span |-> SubSeq(skel, first, last)]
        ELSE [found |-> FALSE, span |-> <<>>]

\* json.loads(json_str): an object is a pair of braces around nothing or
\* around one member list; anything else raises JSONDecodeError
json_loads(span, body) ==
    IF span = <<LB, RB>> THEN [exc |-> "none", data |-> EmptyBody]
    ELSE IF span = <<LB, AT, RB>> THEN [exc |-> "none", data |-> body]
    ELSE [exc |-> "JSONDecodeError", data |-> EmptyBody]

\* data.get(key) or default: the default also for a value that is falsy
GetOrDefault(data, key, default) ==
    IF data[key].ty = "missing" \/ ~Truthy(data[key]) THEN default ELSE data[key]

\* data.get(key, default)
Get(data, key, default) == IF data[key].ty = "missing" THEN default ELSE data[key]

\* float(x)
ToFloat(v) ==
    CASE v.ty \in {"num", "numstr"} -> [exc |-> "none", n |-> v.n]
      [] v.ty = "str" -> [exc |-> "ValueError", n |-> 0]
      [] OTHER -> [exc |-> "TypeError", n |-> 0]

\* lines 104-116: the body of the try block
ParseStructured(response) ==
    LET m == json_match(response.skel)
    IN  IF ~m.found THEN Raise("NoMatch")
        ELSE LET d == json_loads(m.span, response.body)
             IN  IF d.exc # "none" THEN Raise(d.exc)
                 ELSE LET i == ToFloat(Get(d.data, "impact_score", Num(DefaultImpact)))
                          c == ToFloat(Get(d.data, "confidence", Num(DefaultConfidence)))
                      IN  IF i.exc # "none" THEN Raise(i.exc)
                          ELSE IF c.exc # "none" THEN Raise(c.exc)
                          ELSE Return(Result(
                                   i.n,
                                   Get(d.data, "market_prediction", Str(<<>>)),
                                   Get(d.data, "trading_suggestion", Str(<<>>)),
                                   Get(d.data, "sentiment", Str(<<"neutral">>)),
                                   c.n,
                                   Get(d.data, "key_points", Lst(<<>>)),
                                   "structured"))

\* a handler that names ValueError alone: float(None) escapes it
CaughtValueErrorOnly(exc) == exc \in {"JSONDecodeError", "ValueError"}

\* except Exception (line 117): every exception class of the try block
Caught(exc) == TRUE

_parse_response(response) ==
    LET t == ParseStructured(response)
    IN  IF t.exc = "none" THEN t
        ELSE IF t.exc = "NoMatch" \/ Caught(t.exc)
             THEN Return(_create_fallback_result(response))
             ELSE t

---------------------------------------------------------------------------
(* ModelRouter._is_valid_result *)

Sentiments == {"positive", "negative", "neutral"}

\* the validation without the two range tests
IsValidWithoutRange(result) ==
    /\ Truthy(result.market_prediction)
    /\ Truthy(result.trading_suggestion)
    /\ result.sentiment.ty = "str"
    /\ \E x \in {"positive", "negative", "neutral"} : result.sentiment.s = <<x>>

_is_valid_result(result) ==
    /\ Truthy(result.market_prediction)
    /\ Truthy(result.trading_suggestion)
    /\ 0 <= result.impact_score /\ result.impact_score <= 10
    /\ 0 <= result.confidence /\ result.confidence <= 10
    /\ result.sentiment.ty = "str"
    /\ \E x \in Sentiments : result.sentiment.s = <<x>>

---------------------------------------------------------------------------
(* Configuration: ConfigManager.get_ai_models *)

IDs == {"m1", "m2", "m3"}

\* ModelRouter._adapter_classes
AdapterClasses == {"openai", "claude", "gemini", "openrouter", "grok"}

TypeOf(id) == CASE id = "m1" -> "openai" [] id = "m2" -> "claude" [] OTHER -> "gemini"

DefaultPriority == 999

\* one entry of ai_config['models']; priority 0 stands for a missing key
Descriptor(id, prio, enabled, key) ==
    [id |-> id, type |-> TypeOf(id), api_key |-> key, base_url |-> "url",
     model |-> "name", priority |-> prio, enabled |-> enabled]

\* a backend is usable with priority 1 or 2, or it is out of use: m2 is then
\* disabled, m1 and m3 are enabled without an API key
DescriptorsOf(id) ==
    {Descriptor(id, p, TRUE, "key") : p \in {1, 2}}
    \cup (IF id = "m2" THEN {Descriptor(id, 1, FALSE, "key")}
                        ELSE {Descriptor(id, 1, TRUE, "")})

\* the configurations of the model: the three backends in file order
Configs ==
    {<<a, b, c>> : a \in DescriptorsOf("m1"), b \in DescriptorsOf("m2"),
                   c \in DescriptorsOf("m3")}

\* descriptors the construction has to leave out, one of each kind: an API
\* key that is missing, a type without an adapter class, an empty base_url,
\* an empty model name, a model that is disabled
FlawedDescriptorsOf(id) ==
    CASE id = "m1" -> {Descriptor(id, 1, TRUE, ""),
                       [Descriptor(id, 1, TRUE, "key") EXCEPT !.type = "llama"]}
      [] id = "m2" -> {Descriptor(id, 1, FALSE, "key"),
                       [Descriptor(id, 1, TRUE, "key") EXCEPT !.base_url = ""]}
      [] OTHER     -> {[Descriptor(id, 1, TRUE, "key") EXCEPT !.model = ""]}

\* the configurations a router is constructed or reloaded with: each backend
\* usable, or flawed in one of the ways above; the first one may come second
\* in priority
ReloadableConfigs ==
    {<<a, b, c>> :
        a \in {Descriptor("m1", 1, TRUE, "key"), Descriptor("m1", 2, TRUE, "key")}
               \cup FlawedDescriptorsOf("m1"),
        b \in {Descriptor("m2", 1, TRUE, "key")} \cup FlawedDescriptorsOf("m2"),
        c \in {Descriptor("m3", 1, TRUE, "key")} \cup FlawedDescriptorsOf("m3")}

\* x.get('priority', 999)
PriorityKey(m) == IF m.priority = 0 THEN DefaultPriority ELSE m.priority

\* sorted() is stable: m goes behind every entry whose key is not larger
RECURSIVE InsertSorted(_, _)
InsertSorted(sorted, m) ==
    IF sorted = <<>> THEN <<m>>
    ELSE IF PriorityKey(Head(sorted)) <= PriorityKey(m)
         THEN <<Head(sorted)>> \o InsertSorted(Tail(sorted), m)
         ELSE <<m>> \o sorted

RECURSIVE SortedByPriority(_)
SortedByPriority(models) ==
    IF models = <<>> THEN <<>>
    ELSE InsertSorted(SortedByPriority(SubSeq(models, 1, Len(models) - 1)),
                      models[Len(models)])

IsEnabled(m) == m.enabled

\* the enabled models in file order, the sort left out
get_ai_models_unsorted(cfg) == SelectSeq(cfg, IsEnabled)

get_ai_models(cfg) == SortedByPriority(SelectSeq(cfg, IsEnabled))

---------------------------------------------------------------------------
(* Adapters: BaseAIAdapter.__init__, is_configured, _update_usage_stats *)

UsageStats == [total_requests |-> 0, successful_requests |-> 0,
               failed_requests |-> 0, total_tokens |-> 0]

NotBuilt == [built |-> FALSE, _is_healthy |-> FALSE, _last_health_check |-> 0,
             usage_stats |-> UsageStats]

\* BaseAIAdapter.__init__
NewAdapter == [built |-> TRUE, _is_healthy |-> TRUE, _last_health_check |-> 0,
               usage_stats |-> UsageStats]

is_configured(m) == m.api_key # "" /\ m.base_url # "" /\ m.model # ""

\* the loop given up at the first descriptor that cannot be built
InitializeAdaptersAbortOnBad(cfg) ==
    LET models == get_ai_models(cfg)
        usable(m) == /\ m.type \in AdapterClasses
                     /\ m.api_key # ""
                     /\ is_configured(m)
    IN  [id \in IDs |->
            IF \E i \in DOMAIN models :
                  /\ models[i].id = id
                  /\ \A j \in 1..i : usable(models[j])
            THEN NewAdapter ELSE NotBuilt]

\* ModelRouter._initialize_adapters: the adapters dict after the loop
_initialize_adapters(cfg) ==
    LET models == get_ai_models(cfg)
        usable(m) == /\ m.type \in AdapterClasses
                     /\ m.api_key # ""
                     /\ is_configured(m)
    IN  [id \in IDs |->
            IF \E i \in DOMAIN models : models[i].id = id /\ usable(models[i])
            THEN NewAdapter ELSE NotBuilt]

\* a circuit breaker in the update: a failed call marks the adapter unhealthy
UpdateUsageStatsTripsBreaker(a, success) ==
    [a EXCEPT !.usage_stats =
                 [total_requests |-> @.total_requests + 1,
                  successful_requests |->
                      @.successful_requests + (IF success THEN 1 ELSE 0),
                  failed_requests |->
                      @.failed_requests + (IF success THEN 0 ELSE 1),
                  total_tokens |-> @.total_tokens + 0],
              !._is_healthy = IF success THEN @ ELSE FALSE]

\* the update left out of the except branch: a failed call is not counted
UpdateUsageStatsSuccessOnly(a, success) ==
    IF success
    THEN [a EXCEPT !.usage_stats =
            [total_requests |-> @.total_requests + 1,
             successful_requests |-> @.successful_requests + 1,
             failed_requests |-> @.failed_requests,
             total_tokens |-> @.total_tokens + 0]]
    ELSE a

\* _update_usage_stats(success, response_time, tokens=0); the adapters never
\* pass tokens
_update_usage_stats(a, success) ==
    [a EXCEPT !.usage_stats =
        [total_requests |-> @.total_requests + 1,
         successful_requests |-> @.successful_requests + (IF success THEN 1 ELSE 0),
         failed_requests |-> @.failed_requests + (IF success THEN 0 ELSE 1),
         total_tokens |-> @.total_tokens + 0]]

---------------------------------------------------------------------------
(* What a backend answers *)

\* the ways a remote call fails
BackendErrors == {"Timeout", "AuthFailure", "RateLimited", "Malformed", "Unreachable"}

ObjectText(b) == [skel |-> <<LB, AT, RB>>, body |-> b]

\* the texts a backend answers an analysis prompt with
ReplyTexts ==
    {ObjectText(WellFormedBody),
     ObjectText([WellFormedBody EXCEPT !.impact_score = Num(15)]),
     ObjectText([WellFormedBody EXCEPT !.confidence = Null]),
     [skel |-> <<"significant", "movement">>, body |-> WellFormedBody],
     [skel |-> <<>>, body |-> WellFormedBody]}

\* the outcome of _make_api_request: a text, or an exception
RemoteOutcomes == {Raise(e) : e \in BackendErrors} \cup
                  {[exc |-> "none", res |-> t] : t \in ReplyTexts}

\* what a health probe sees: an exception or timeout, an empty text, a text
\* without the expected literal, a text with it
ProbeReplies == {"error", "empty", "off_topic", "expected"}

\* the verdict of <Type>Adapter.health_check; Claude's asks for any text
ProbeVerdict(type, reply) ==
    CASE reply = "error" -> FALSE
      [] reply = "empty" -> FALSE
      [] reply = "off_topic" -> type = "claude"
      [] OTHER -> TRUE

\* <Type>Adapter.health_check at time t: the request is sent on every call
\* (the adapters override the method of the base class, which alone looks at
\* _last_health_check first); an exception or a timeout is caught
health_check(a, type, reply, t) ==
    [a EXCEPT !._is_healthy = ProbeVerdict(type, reply),
              !._last_health_check = t]

---------------------------------------------------------------------------
(* <Type>Adapter.analyze_news *)

\* the result built in the except branch, lines 55-62
AdapterErrorResult(e) ==
    Result(3, Str(<<"unavailable", e>>), Str(<<"wait", "carefully">>),
           Str(<<"neutral">>), 1, Lst(<<"service_error", "manual_analysis">>),
           "adapter_error")

\* the try block, lines 32-47: the request, then the parser
AnalyzeTry(remote) ==
    IF remote.exc # "none" THEN Raise(remote.exc) ELSE _parse_response(remote.res)

\* except Exception: the exceptions of a remote call are Exceptions; the
\* CancelledError of a cancelled task is a BaseException (Python 3.8 and
\* later) and passes the handler
ExceptException(exc) == exc # "CancelledError"

\* the except branch of analyze_news, lines 49-62
AdapterCatches(exc) == ExceptException(exc)

\* the value analyze_news returns for the outcome of the remote call, or the
\* exception that leaves it
AdapterAnalyze(remote) ==
    LET t == AnalyzeTry(remote)
    IN  IF t.exc = "none" THEN t
        ELSE IF AdapterCatches(t.exc) THEN Return(AdapterErrorResult(t.exc))
        ELSE t

---------------------------------------------------------------------------
(* ModelRouter *)

HealthCheckWindow == 300

\* ModelRouter._create_fallback_result
RouterFallback(msg) ==
    Result(3, Str(<<"unavailable", msg>>), Str(<<"pause", "trading">>),
           Str(<<"neutral">>), 1,
           Lst(<<"service_error", "manual_analysis", "caution", "wait">>),
           "router_fallback")

\* lines 87-90: no healthy adapter
NoneAvailable == Return(RouterFallback("all_unavailable"))

\* an exception in place of the fallback result
AllFailedRaises == Raise("RuntimeError")

\* lines 110-115: every adapter failed
AllFailed == Return(RouterFallback("analysis_failed"))

NotReturned == Raise("NotReturned")

\* the list without the test of _is_healthy
HealthyAdaptersAllBuilt(cfg, ads) ==
    LET models == get_ai_models(cfg)
        ids == [i \in DOMAIN models |-> models[i].id]
        keep(id) == ads[id].built
    IN  SelectSeq(ids, keep)

\* the healthy adapters with the least used ones first, as a load balancer
\* orders them
HealthyAdaptersLeastUsedFirst(cfg, ads) ==
    LET models == get_ai_models(cfg)
        ids == [i \in DOMAIN models |-> models[i].id]
        keep(id) == ads[id].built /\ ads[id]._is_healthy
        healthy == SelectSeq(ids, keep)
        least(id) == \A i \in DOMAIN healthy :
                        ads[id].usage_stats.total_requests
                           <= ads[healthy[i]].usage_stats.total_requests
        more(id) == ~least(id)
    IN  SelectSeq(healthy, least) \o SelectSeq(healthy, more)

\* lines 126-137: the healthy adapters in the order of get_ai_models
HealthyAdapters(cfg, ads) ==
    LET models == get_ai_models(cfg)
        ids == [i \in DOMAIN models |-> models[i].id]
        keep(id) == ads[id].built /\ ads[id]._is_healthy
    IN  SelectSeq(ids, keep)

InitialStats == [total_requests |-> 0, successful_requests |-> 0,
                 failed_requests |-> 0, fallback_count |-> 0,
                 last_health_check |-> 0]

\* no gather is running
NoVerdicts == [id \in IDs |-> "none"]

\* a gather begins with a task for each adapter of targets: no probe has
\* ended, every adapter has the flag it had
PendingVerdicts(ads, targets) ==
    [id \in IDs |->
        IF id \notin targets THEN "none"
        ELSE IF ads[id]._is_healthy THEN "was_healthy" ELSE "was_unhealthy"]

\* the adapter objects of construction round n
InstancesOfRound(ads, n) == [id \in IDs |-> IF ads[id].built THEN n ELSE 0]

\* no call is running: no list, no adapter object in it
NoneHeld == [id \in IDs |-> 0]

\* lines 133-135: the list holds the adapter objects themselves, here the
\* objects self.adapters has for the ids of healthy when the list is built
HeldBy(healthy, rounds) ==
    [id \in IDs |-> IF \E i \in DOMAIN healthy : healthy[i] = id
                    THEN rounds[id] ELSE 0]

\* the second coroutine when it runs no call
OtherIdle == [pc |-> "idle", current_time |-> 0, pending |-> {},
              candidates |-> <<>>, idx |-> 0, ret |-> NotReturned]

\* a call of _perform_health_checks at time t that made a task for targets,
\* run by the coroutine `by` ("call" or "other"; "earlier" for a call of
\* analyze_news that is over)
Refresh(t, targets, by) == [at |-> t, targets |-> targets, by |-> by]

\* what is kept of the health checks once no call is running: the time of the
\* last one, if there was one
KeepLast(log) ==
    IF log = <<>> THEN <<>> ELSE <<Refresh(log[Len(log)].at, {}, "earlier")>>

\* the health fields of an adapter
HealthOf(a) == [_is_healthy |-> a._is_healthy,
                _last_health_check |-> a._last_health_check]

---------------------------------------------------------------------------
(* The usage statistics of one adapter, with the tokens and the times *)

\* the calls of analyze_news made on the adapter
MaxCalls == 4

\* the UsageStats dataclass (base_adapter.py:28-35) with the average, kept
\* as the exact fraction <<numerator, denominator>>; last_request_time is
\* written and only read for display, it is left out
TimedUsageStats == [total_requests |-> 0, successful_requests |-> 0,
                    failed_requests |-> 0, total_tokens |-> 0,
                    avg_response_time |-> <<0, 1>>]

\* the times a call can take, in tenths of a second
ResponseTimes == {2, 9}

\* result['usage'] of a reply of the API: the object with its total_tokens,
\* or no such member
NoUsage == [present |-> FALSE, total_tokens |-> 0]
Usage(n) == [present |-> TRUE, total_tokens |-> n]
ReportedUsages == {NoUsage, Usage(120), Usage(350)}

\* what session.post gives: a reply with its status, or an exception of the
\* client (a timeout, a refused connection)
HttpReply(status, usage) == [exc |-> "none", status |-> status, usage |-> usage]
ClientError == [exc |-> "ClientError", status |-> 0, usage |-> NoUsage]
ApiReplies == {HttpReply(200, u) : u \in ReportedUsages} \cup
              {HttpReply(500, NoUsage), ClientError}

\* a request is a success when session.post gave a reply of status 200
Answered(reply) == reply.exc = "none" /\ reply.status = 200

\* OpenAIAdapter._make_api_request: status 200 gives the content; the usage
\* of the reply is read into the local total_tokens and the local is not
\* used; another status raises, and so does an exception of the client
_make_api_request(reply) ==
    IF Answered(reply)
    THEN LET usage == reply.usage
             total_tokens == IF usage.present THEN usage.total_tokens ELSE 0
         IN  [exc |-> "none"]
    ELSE IF reply.exc = "none" THEN [exc |-> "HTTP"] ELSE [exc |-> reply.exc]

\* _update_usage_stats with the average taken over all the requests
UpdateUsageStatsOverAllRequests(stats, success, response_time, tokens) ==
    LET counted == [stats EXCEPT !.total_requests = @ + 1]
    IN  IF success
        THEN LET current_avg == counted.avg_response_time
                 total == counted.total_requests
             IN  [counted EXCEPT
                     !.successful_requests = @ + 1,
                     !.total_tokens = @ + tokens,
                     !.avg_response_time =
                         <<current_avg[1] * (total - 1)
                               + response_time * current_avg[2],
                           current_avg[2] * total>>]
        ELSE [counted EXCEPT !.failed_requests = @ + 1]

\* BaseAIAdapter._update_usage_stats (lines 205-221) with its response_time
\* and tokens: every call counts a request; a success adds the tokens and
\* folds the time into the average, (avg * (n - 1) + time) / n with n the
\* successes so far, this one included; a failure only counts
UpdateUsageStatsTimed(stats, success, response_time, tokens) ==
    LET counted == [stats EXCEPT !.total_requests = @ + 1]
    IN  IF success
        THEN LET total_successful == counted.successful_requests + 1
                 current_avg == counted.avg_response_time
             IN  [counted EXCEPT
                     !.successful_requests = total_successful,
                     !.total_tokens = @ + tokens,
                     !.avg_response_time =
                         <<current_avg[1] * (total_successful - 1)
                               + response_time * current_avg[2],
                           current_avg[2] * total_successful>>]
        ELSE [counted EXCEPT !.failed_requests = @ + 1]

\* an adapter nobody has called
UsageQuiet ==
    /\ usage_stats = TimedUsageStats
    /\ calls = <<>>

---------------------------------------------------------------------------
(* CacheManager (cache_manager.py): the memory cache and the cache files *)

\* the clock of the cache runs to StartTime + CacheSpan
CacheSpan == 610

\* CacheManager.default_ttl and memory_cache_limit
default_ttl == 300
memory_cache_limit == 1000

\* what time passes between two calls on the cache
CacheSteps == {100, 301}

\* the ttl argument of set: None, or a number of seconds
NoTtl == 0
ShortTtl == 60
LongTtl == 400
Ttls == {NoTtl, ShortTtl, LongTtl}

Namespaces == {<<"news">>}
EntryKeys == {<<"a">>, <<"b">>}
CacheData == {"d1"}

\* the default of get, and the mark of a key a dict does not hold
CacheDefault == "None"
Absent == "absent"
NoStamp == 0

\* _generate_cache_key: the digest of namespace + ":" + key, taken as the
\* combined string itself
_generate_cache_key(namespace, key) == namespace \o <<":">> \o key

CacheKeys == {_generate_cache_key(ns, k) : ns \in Namespaces, k \in EntryKeys}

\* a cache file: no file, or the object set wrote
NoFile == [exists |-> FALSE, data |-> Absent, created_at |-> 0, expires_at |-> 0]
CacheFile(data, created_at, expires_at) ==
    [exists |-> TRUE, data |-> data, created_at |-> created_at,
     expires_at |-> expires_at]

\* the two dicts of the memory cache as one value
Memory(cache, timestamps) == [cache |-> cache, timestamps |-> timestamps]

\* _remove_from_memory_cache: pop the key from both dicts
_remove_from_memory_cache(mem, cache_key) ==
    Memory([mem.cache EXCEPT ![cache_key] = Absent],
           [mem.timestamps EXCEPT ![cache_key] = NoStamp])

InMemory(mem) == {k \in CacheKeys : mem.cache[k] # Absent}

\* _add_to_memory_cache (lines 218-228): a full cache loses its oldest
\* entry; the entry is stored with the time of the call
_add_to_memory_cache(mem, cache_key, data, t) ==
    LET full == Cardinality(InMemory(mem)) >= memory_cache_limit
        oldest_key == CHOOSE k \in InMemory(mem) :
                          \A j \in InMemory(mem) :
                              mem.timestamps[k] <= mem.timestamps[j]
        room == IF full THEN _remove_from_memory_cache(mem, oldest_key) ELSE mem
    IN  Memory([room.cache EXCEPT ![cache_key] = data],
               [room.timestamps EXCEPT ![cache_key] = t])

\* ghost records of the last set of a key and of the last get
NoSet == [made |-> FALSE, data |-> Absent, at |-> 0, ttl |-> 0]
SetOf(data, at, ttl) == [made |-> TRUE, data |-> data, at |-> at, ttl |-> ttl]
NoGet == [made |-> FALSE, cache_key |-> <<>>, value |-> Absent, at |-> 0]
GetOf(cache_key, value, at) ==
    [made |-> TRUE, cache_key |-> cache_key, value |-> value, at |-> at]

\* CacheManager.__init__: empty dicts, and a cache directory without files
CacheQuiet ==
    /\ memory_cache = [k \in CacheKeys |-> Absent]
    /\ memory_cache_timestamps = [k \in CacheKeys |-> NoStamp]
    /\ cache_files = [k \in CacheKeys |-> NoFile]
    /\ last_set = [k \in CacheKeys |-> NoSet]
    /\ got = NoGet

---------------------------------------------------------------------------
(* The construction of the router *)

\* the parser at rest
ParserQuiet ==
    /\ raw = SignificantText
    /\ parsed = Raise("NotParsed")

NormQuiet ==
    /\ ParserQuiet
    /\ UsageQuiet
    /\ CacheQuiet

\* ModelRouter.__init__ on the configuration cfgs offers
Constructed(cfgs) ==
    /\ NormQuiet
    /\ config \in cfgs
    /\ adapters = _initialize_adapters(config)
    /\ routing_stats = InitialStats
    /\ now = StartTime
    /\ pc = "idle"
    /\ current_time = 0
    /\ pending = {}
    /\ candidates = <<>>
    /\ idx = 0
    /\ attempts = <<>>
    /\ ret = NotReturned
    /\ entry_stats = InitialStats
    /\ verdicts = NoVerdicts
    /\ reloads = 0
    /\ instance_of = InstancesOfRound(adapters, 1)
    /\ inflight = {}
    /\ refreshes = <<>>
    /\ other = OtherIdle
    /\ held = NoneHeld

Init == Constructed(Configs)

\* a loop that starts the calls of all the adapters left at once, as a gather
\* over the list does
CallsStartedWithRest(cands, i) == {cands[j] : j \in i..Len(cands)}

\* line 96: the loop awaits the call of one adapter, the one at position i
CallsStarted(cands, i) == {cands[i]}

\* health checks for the adapters that are marked healthy only
RefreshTargetsHealthyOnly(ads) ==
    {id \in IDs : ads[id].built /\ ads[id]._is_healthy}

\* lines 147-152: _perform_health_checks makes a task for every adapter of
\* self.adapters
RefreshTargets(ads) == {id \in IDs : ads[id].built}

\* the test of line 122 with the window counted from the end of the check
StaleSinceInclusive(t, stats) ==
    t - stats.last_health_check >= HealthCheckWindow

\* line 122: a health check is due
Stale(t, stats) == t - stats.last_health_check > HealthCheckWindow

\* the return of lines 87-90 without the count of the failed request
DispatchNoFailureCount(stats, ads) ==
    LET healthy == HealthyAdapters(config, ads)
    IN  /\ candidates' = healthy
        /\ routing_stats' = stats
        /\ idx' = IF healthy = <<>> THEN 0 ELSE 1
        /\ ret' = IF healthy = <<>> THEN NoneAvailable ELSE NotReturned
        /\ pc' = IF healthy = <<>> THEN "returned" ELSE "calling"
        /\ inflight' = IF healthy = <<>> THEN {} ELSE CallsStarted(healthy, 1)
        /\ held' = HeldBy(healthy, instance_of)

\* the rest of analyze_news once the candidate list is known: the empty list
\* returns at once, otherwise the first adapter is awaited
Dispatch(stats, ads) ==
    LET healthy == HealthyAdapters(config, ads)
    IN  /\ candidates' = healthy
        /\ held' = HeldBy(healthy, instance_of)
        /\ IF healthy = <<>>
           THEN /\ routing_stats' =
                      [stats EXCEPT !.failed_requests = @ + 1]
                /\ ret' = NoneAvailable
                /\ pc' = "returned"
                /\ idx' = 0
                /\ inflight' = {}
           ELSE /\ routing_stats' = stats
                /\ ret' = NotReturned
                /\ pc' = "calling"
                /\ idx' = 1
                /\ inflight' = CallsStarted(healthy, 1)

\* analyze_news up to its first await: the counter, the staleness test, and,
\* when no health check is due (or there is no adapter to check), the list
RouteBegin ==
    /\ pc = "idle"
    /\ routing_stats.total_requests < MaxRoutes
    /\ entry_stats' = routing_stats
    /\ current_time' = now
    /\ LET counted == [routing_stats EXCEPT !.total_requests = @ + 1]
           stale == Stale(now, routing_stats)
           built == {id \in IDs : adapters[id].built}
           targets == IF built = {} THEN {} ELSE RefreshTargets(adapters)
       IN  /\ refreshes' =
                 IF stale THEN Append(refreshes, Refresh(now, targets, "call"))
                          ELSE refreshes
           /\ IF stale /\ built # {}
              THEN /\ pending' = targets
                   /\ verdicts' = PendingVerdicts(adapters, targets)
                   /\ pc' = "probing"
                   /\ routing_stats' = counted
                   /\ UNCHANGED <<candidates, idx, ret, inflight, held>>
              ELSE /\ pending' = {}
                   /\ UNCHANGED verdicts
                   /\ Dispatch(IF stale
                               THEN [counted EXCEPT !.last_health_check = now]
                               ELSE counted, adapters)
    /\ UNCHANGED <<config, adapters, now, attempts, reloads, instance_of, other>>
    /\ UNCHANGED nvars

\* the built adapter that comes last in self.adapters
LastBuilt(ads) ==
    IF ads["m3"].built THEN "m3" ELSE IF ads["m2"].built THEN "m2" ELSE "m1"

\* every task checks the adapter the loop variable names once the loop is over
CheckAdapterHealthLateBinding(ads, id, reply, t) ==
    [ads EXCEPT ![LastBuilt(ads)] = health_check(@, TypeOf(LastBuilt(ads)), reply, t)]

\* ModelRouter._check_adapter_health on adapter id, whose probe sees reply
_check_adapter_health(ads, id, reply, t) ==
    [ads EXCEPT ![id] = health_check(@, TypeOf(id), reply, t)]

\* one task of the gather finishes: _check_adapter_health on one adapter
ProbeDone(id, reply) ==
    /\ pc \in {"probing", "forcing"}
    /\ id \in pending
    /\ pending' = pending \ {id}
    /\ adapters' = _check_adapter_health(adapters, id, reply, now)
    /\ verdicts' = [verdicts EXCEPT ![id] = reply]
    /\ UNCHANGED <<config, routing_stats, now, pc, current_time, candidates,
                   idx, attempts, ret, entry_stats, reloads, instance_of>>
    /\ UNCHANGED ovars
    /\ UNCHANGED nvars

\* the gather returns: last_health_check is set and the list is built
GatherDone ==
    /\ pc = "probing"
    /\ pending = {}
    /\ Dispatch([routing_stats EXCEPT !.last_health_check = current_time], adapters)
    /\ verdicts' = NoVerdicts
    /\ UNCHANGED <<config, adapters, now, current_time, pending, attempts,
                   entry_stats, reloads, instance_of, refreshes, other>>
    /\ UNCHANGED nvars

\* a handler that catches everything, as a bare except does
RouterCatchesAll(exc) == TRUE

\* the except branch of the loop, model_router.py:106
RouterCatches(exc) == ExceptException(exc)

\* the loop trying the same adapter again
SameCandidate(i) == i

\* the for loop of line 93 going on to the next adapter
NextCandidate(i) == i + 1

\* the awaited adapter call ends with the remote outcome `remote`: the adapter
\* builds its result and counts the call, the router validates the result and
\* returns it, goes on to the next adapter, or is out of adapters; an
\* exception that no handler catches leaves analyze_news
CallCompletes(remote) ==
    /\ pc = "calling"
    /\ LET id == candidates[idx]
           result == AdapterAnalyze(remote)
           counted == remote.exc = "none" \/ AdapterCatches(remote.exc)
           accepted == result.exc = "none" /\ _is_valid_result(result.res)
           escapes == result.exc # "none" /\ ~RouterCatches(result.exc)
       IN  /\ adapters' =
                 IF counted /\ held[id] = instance_of[id]
                 THEN [adapters EXCEPT
                          ![id] = _update_usage_stats(@, remote.exc = "none")]
                 ELSE adapters
           /\ attempts' = Append(attempts,
                 [id |-> id, remote |-> remote,
                  before |-> adapters[id].usage_stats,
                  after |-> adapters'[id].usage_stats,
                  health_before |-> HealthOf(adapters[id]),
                  health_after |-> HealthOf(adapters'[id]),
                  instance |-> held[id],
                  reloads |-> reloads])
           /\ IF accepted
              THEN /\ routing_stats' =
                         [routing_stats EXCEPT !.successful_requests = @ + 1]
                   /\ ret' = result
                   /\ pc' = "returned"
                   /\ idx' = 0
                   /\ inflight' = inflight \ {id}
              ELSE IF escapes
              THEN /\ ret' = result
                   /\ pc' = "cancelled"
                   /\ idx' = 0
                   /\ inflight' = inflight \ {id}
                   /\ UNCHANGED routing_stats
              ELSE IF idx < Len(candidates)
              THEN /\ idx' = NextCandidate(idx)
                   /\ inflight' =
                         (inflight \ {id}) \cup CallsStarted(candidates, idx')
                   /\ UNCHANGED <<routing_stats, ret, pc>>
              ELSE /\ routing_stats' =
                         [routing_stats EXCEPT !.failed_requests = @ + 1,
                                               !.fallback_count = @ + 1]
                   /\ ret' = AllFailed
                   /\ pc' = "returned"
                   /\ idx' = 0
                   /\ inflight' = inflight \ {id}
    /\ UNCHANGED <<config, now, current_time, pending, candidates, entry_stats,
                   refreshes, other, held>>
    /\ UNCHANGED gvars
    /\ UNCHANGED nvars

\* the task running analyze_news is cancelled while it awaits an adapter: the
\* CancelledError is raised inside the adapter's remote request
Cancel == CallCompletes(Raise("CancelledError"))

\* the task is cancelled while it awaits the gather of the health checks: the
\* gather cancels its tasks and the CancelledError leaves analyze_news before
\* last_health_check is set
CancelRefresh ==
    /\ pc = "probing"
    /\ pending' = {}
    /\ pc' = "cancelled"
    /\ ret' = Raise("CancelledError")
    /\ verdicts' = NoVerdicts
    /\ UNCHANGED <<config, adapters, routing_stats, now, current_time,
                   candidates, idx, attempts, entry_stats, reloads, instance_of>>
    /\ UNCHANGED ovars
    /\ UNCHANGED nvars

\* the caller has taken the result of the call, or its exception
RouteEnd ==
    /\ pc \in {"returned", "cancelled"}
    /\ pc' = "idle"
    /\ ret' = NotReturned
    /\ attempts' = <<>>
    /\ candidates' = <<>>
    /\ current_time' = 0
    /\ entry_stats' = InitialStats
    /\ inflight' = {}
    /\ held' = NoneHeld
    /\ refreshes' = IF other.pc = "idle" THEN KeepLast(refreshes) ELSE refreshes
    /\ UNCHANGED <<config, adapters, routing_stats, now, pending, idx, other>>
    /\ UNCHANGED gvars
    /\ UNCHANGED nvars

\* time passes between two calls of the router (the clock is read when a call
\* begins and when a probe ends)
Tick ==
    /\ pc = "idle"
    /\ other.pc = "idle"
    /\ routing_stats.total_requests < MaxRoutes
    /\ now < StartTime + MaxTicks * TickStep
    /\ now' = now + TickStep
    /\ UNCHANGED <<config, adapters, routing_stats, pc, current_time, pending,
                   candidates, idx, attempts, ret, entry_stats>>
    /\ UNCHANGED gvars
    /\ UNCHANGED ovars
    /\ UNCHANGED nvars

Next ==
    \/ RouteBegin
    \/ \E id \in IDs, reply \in ProbeReplies : ProbeDone(id, reply)
    \/ GatherDone
    \/ \E remote \in RemoteOutcomes : CallCompletes(remote)
    \/ RouteEnd
    \/ Tick

Spec == Init /\ [][Next]_vars

\* the router at rest, for the behaviours that only parse
RouterQuiet ==
    /\ config = <<>>
    /\ adapters = [id \in IDs |-> NotBuilt]
    /\ routing_stats = InitialStats
    /\ now = StartTime
    /\ pc = "idle"
    /\ current_time = 0
    /\ pending = {}
    /\ candidates = <<>>
    /\ idx = 0
    /\ attempts = <<>>
    /\ ret = NotReturned
    /\ entry_stats = InitialStats
    /\ verdicts = NoVerdicts
    /\ reloads = 0
    /\ instance_of = [id \in IDs |-> 0]
    /\ inflight = {}
    /\ refreshes = <<>>
    /\ other = OtherIdle
    /\ held = NoneHeld

---------------------------------------------------------------------------
(* force_health_check, reload_config and the cancellation of analyze_news *)

\* force_health_check asking whether a check is due, as analyze_news does
ForceTargetsWhenStale(stats, ads, t) ==
    IF t - stats.last_health_check > HealthCheckWindow
    THEN {id \in IDs : ads[id].built}
    ELSE {}

\* force_health_check: _perform_health_checks makes a task for every adapter
\* of self.adapters, whatever last_health_check says
ForceTargets(stats, ads, t) == {id \in IDs : ads[id].built}

\* force_health_check up to the await of the gather (the behaviours end with
\* the last call of analyze_news)
ForceBegin ==
    /\ pc = "idle"
    /\ routing_stats.total_requests < MaxRoutes
    /\ pc' = "forcing"
    /\ pending' = ForceTargets(routing_stats, adapters, now)
    /\ verdicts' = PendingVerdicts(adapters, pending')
    /\ UNCHANGED <<config, adapters, routing_stats, now, current_time,
                   candidates, idx, attempts, ret, entry_stats, reloads,
                   instance_of>>
    /\ UNCHANGED ovars
    /\ UNCHANGED nvars

\* the gather of force_health_check returns, and so does the call
ForceDone ==
    /\ pc = "forcing"
    /\ pending = {}
    /\ pc' = "forced"
    /\ UNCHANGED <<config, adapters, routing_stats, now, current_time, pending,
                   candidates, idx, attempts, ret, entry_stats>>
    /\ UNCHANGED gvars
    /\ UNCHANGED ovars
    /\ UNCHANGED nvars

\* the caller of force_health_check goes on
ForceEnd ==
    /\ pc = "forced"
    /\ pc' = "idle"
    /\ verdicts' = NoVerdicts
    /\ UNCHANGED <<config, adapters, routing_stats, now, current_time, pending,
                   candidates, idx, attempts, ret, entry_stats, reloads,
                   instance_of>>
    /\ UNCHANGED ovars
    /\ UNCHANGED nvars

\* the adapters dict kept: an adapter stays unless a new one takes its key
ReloadAdaptersNoClear(old, cfg) ==
    [id \in IDs |-> IF _initialize_adapters(cfg)[id].built
                    THEN _initialize_adapters(cfg)[id] ELSE old[id]]

\* reload_config, lines 253-256: self.adapters.clear(), _initialize_adapters()
ReloadAdapters(old, cfg) == _initialize_adapters(cfg)

\* reload_config with cfg the configuration the files now hold; routing_stats
\* is left as it is (the behaviours end with the last call of analyze_news)
ReloadConfig(cfg) ==
    /\ pc = "idle"
    /\ routing_stats.total_requests < MaxRoutes
    /\ reloads < MaxReloads
    /\ config' = cfg
    /\ adapters' = ReloadAdapters(adapters, cfg)
    /\ reloads' = reloads + 1
    /\ instance_of' =
          [id \in IDs |->
              IF _initialize_adapters(cfg)[id].built THEN reloads + 2
              ELSE IF adapters'[id].built THEN instance_of[id] ELSE 0]
    /\ pc' = "reloaded"
    /\ UNCHANGED <<routing_stats, now, current_time, pending, candidates, idx,
                   attempts, ret, entry_stats, verdicts>>
    /\ UNCHANGED ovars
    /\ UNCHANGED nvars

\* the caller of reload_config goes on
ReloadEnd ==
    /\ pc = "reloaded"
    /\ pc' = "idle"
    /\ UNCHANGED <<config, adapters, routing_stats, now, current_time, pending,
                   candidates, idx, attempts, ret, entry_stats>>
    /\ UNCHANGED gvars
    /\ UNCHANGED ovars
    /\ UNCHANGED nvars

\* what a backend answers in these behaviours: a failing request, the
\* well-formed object, an object with impact 1.5
OpsOutcomes ==
    {Raise("Timeout"),
     Return(ObjectText(WellFormedBody)),
     Return(ObjectText([WellFormedBody EXCEPT !.impact_score = Num(15)]))}

\* the configurations of the behaviours with forced health checks: the first
\* backend usable, the other two usable or out of use, all with priority 1
HealthConfigs ==
    {cfg \in Configs : /\ \A i \in DOMAIN cfg : cfg[i].priority = 1
                       /\ cfg[1].api_key # ""}

HealthInit == Constructed(HealthConfigs)

HealthNext ==
    \/ RouteBegin
    \/ \E id \in IDs, reply \in ProbeReplies : ProbeDone(id, reply)
    \/ GatherDone
    \/ \E remote \in OpsOutcomes : CallCompletes(remote)
    \/ Cancel
    \/ CancelRefresh
    \/ RouteEnd
    \/ Tick
    \/ ForceBegin
    \/ ForceDone
    \/ ForceEnd

\* calls of analyze_news and of force_health_check, one after the other, and
\* the cancellation of a call of analyze_news
SpecHealth == HealthInit /\ [][HealthNext]_vars

ReloadInit == Constructed(ReloadableConfigs)

ReloadNext ==
    \/ RouteBegin
    \/ \E id \in IDs, reply \in ProbeReplies : ProbeDone(id, reply)
    \/ GatherDone
    \/ \E remote \in OpsOutcomes : CallCompletes(remote)
    \/ RouteEnd
    \/ Tick
    \/ \E cfg \in ReloadableConfigs : ReloadConfig(cfg)
    \/ ReloadEnd

\* the construction of the router, calls of analyze_news and of reload_config,
\* one after the other
SpecReload == ReloadInit /\ [][ReloadNext]_vars

---------------------------------------------------------------------------
(* The clock around the 300 s window *)

\* the steps of the clock between two calls: short of the window by the time
\* a health check takes, the window to the second, one second beyond it
ClockSteps ==
    {HealthCheckWindow - ProbeSeconds, HealthCheckWindow, HealthCheckWindow + 1}

\* time passes between two calls of the router
Advance(d) ==
    /\ pc = "idle"
    /\ other.pc = "idle"
    /\ routing_stats.total_requests < MaxRoutes
    /\ now + d <= StartTime + ClockSpan
    /\ now' = now + d
    /\ UNCHANGED <<config, adapters, routing_stats, pc, current_time, pending,
                   candidates, idx, attempts, ret, entry_stats>>
    /\ UNCHANGED gvars
    /\ UNCHANGED ovars
    /\ UNCHANGED nvars

\* time passes while the gather of analyze_news awaits its health checks
Elapse ==
    /\ pc = "probing"
    /\ pending # {}
    /\ now = current_time
    /\ now + ProbeSeconds <= StartTime + ClockSpan
    /\ now' = now + ProbeSeconds
    /\ UNCHANGED <<config, adapters, routing_stats, pc, current_time, pending,
                   candidates, idx, attempts, ret, entry_stats>>
    /\ UNCHANGED gvars
    /\ UNCHANGED ovars
    /\ UNCHANGED nvars

\* the configurations of these behaviours: the first backend usable, the
\* second usable or out of use, the third out of use
ClockConfigs == {cfg \in HealthConfigs : cfg[3].api_key = ""}

ClockInit == Constructed(ClockConfigs)

ClockNext ==
    \/ RouteBegin
    \/ \E id \in IDs, reply \in ProbeReplies : ProbeDone(id, reply)
    \/ GatherDone
    \/ \E remote \in OpsOutcomes : CallCompletes(remote)
    \/ RouteEnd
    \/ \E d \in ClockSteps : Advance(d)
    \/ Elapse

\* calls of analyze_news, one after the other, with the clock moving by about
\* the length of the window between the calls and during the health checks
SpecClock == ClockInit /\ [][ClockNext]_vars

---------------------------------------------------------------------------
(* Two calls of analyze_news on the same router at once: the second         *)
(* coroutine runs the same code on its own locals (the record other) and    *)
(* on the router's adapters and routing_stats                               *)

\* lines 126-137 and 87-93 for the second coroutine, whose locals are o
OtherDispatch(o, stats) ==
    LET healthy == HealthyAdapters(config, adapters)
    IN  IF healthy = <<>>
        THEN /\ routing_stats' = [stats EXCEPT !.failed_requests = @ + 1]
             /\ other' = [o EXCEPT !.candidates = healthy, !.idx = 0,
                                   !.ret = NoneAvailable, !.pc = "returned"]
        ELSE /\ routing_stats' = stats
             /\ other' = [o EXCEPT !.candidates = healthy, !.idx = 1,
                                   !.pc = "calling"]

\* the second coroutine enters analyze_news and runs up to its first await
OtherBegin ==
    /\ other.pc = "idle"
    /\ routing_stats.total_requests < MaxRoutes
    /\ LET counted == [routing_stats EXCEPT !.total_requests = @ + 1]
           stale == Stale(now, routing_stats)
           built == {id \in IDs : adapters[id].built}
           targets == IF built = {} THEN {} ELSE RefreshTargets(adapters)
           o == [other EXCEPT !.current_time = now]
       IN  /\ refreshes' =
                 IF stale THEN Append(refreshes, Refresh(now, targets, "other"))
                          ELSE refreshes
           /\ IF stale /\ built # {}
              THEN /\ other' = [o EXCEPT !.pc = "probing", !.pending = targets]
                   /\ routing_stats' = counted
              ELSE OtherDispatch(o, IF stale
                                    THEN [counted EXCEPT !.last_health_check = now]
                                    ELSE counted)
    /\ UNCHANGED <<config, adapters, now, pc, current_time, pending, candidates,
                   idx, attempts, ret, entry_stats, inflight, held>>
    /\ UNCHANGED gvars
    /\ UNCHANGED nvars

\* one health-check task of the second coroutine's gather finishes
OtherProbeDone(id, reply) ==
    /\ other.pc = "probing"
    /\ id \in other.pending
    /\ other' = [other EXCEPT !.pending = @ \ {id}]
    /\ adapters' = _check_adapter_health(adapters, id, reply, now)
    /\ UNCHANGED <<config, routing_stats, now, pc, current_time, pending,
                   candidates, idx, attempts, ret, entry_stats, inflight,
                   refreshes, held>>
    /\ UNCHANGED gvars
    /\ UNCHANGED nvars

\* the gather of the second coroutine returns
OtherGatherDone ==
    /\ other.pc = "probing"
    /\ other.pending = {}
    /\ OtherDispatch(other, [routing_stats EXCEPT
                                !.last_health_check = other.current_time])
    /\ UNCHANGED <<config, adapters, now, pc, current_time, pending, candidates,
                   idx, attempts, ret, entry_stats, inflight, refreshes,
                   held>>
    /\ UNCHANGED gvars
    /\ UNCHANGED nvars

\* the adapter call the second coroutine awaits ends
OtherCallCompletes(remote) ==
    /\ other.pc = "calling"
    /\ LET id == other.candidates[other.idx]
           result == AdapterAnalyze(remote)
           accepted == result.exc = "none" /\ _is_valid_result(result.res)
       IN  /\ adapters' =
                 [adapters EXCEPT
                     ![id] = _update_usage_stats(@, remote.exc = "none")]
           /\ IF accepted
              THEN /\ routing_stats' =
                         [routing_stats EXCEPT !.successful_requests = @ + 1]
                   /\ other' = [other EXCEPT !.ret = result, !.idx = 0,
                                             !.pc = "returned"]
              ELSE IF other.idx < Len(other.candidates)
              THEN /\ other' = [other EXCEPT !.idx = NextCandidate(@)]
                   /\ UNCHANGED routing_stats
              ELSE /\ routing_stats' =
                         [routing_stats EXCEPT !.failed_requests = @ + 1,
                                               !.fallback_count = @ + 1]
                   /\ other' = [other EXCEPT !.ret = AllFailed, !.idx = 0,
                                             !.pc = "returned"]
    /\ UNCHANGED <<config, now, pc, current_time, pending, candidates, idx,
                   attempts, ret, entry_stats, inflight, refreshes, held>>
    /\ UNCHANGED gvars
    /\ UNCHANGED nvars

\* the caller of the second coroutine has taken its result
OtherEnd ==
    /\ other.pc = "returned"
    /\ other' = OtherIdle
    /\ refreshes' = IF pc = "idle" THEN KeepLast(refreshes) ELSE refreshes
    /\ UNCHANGED <<config, adapters, routing_stats, now, pc, current_time,
                   pending, candidates, idx, attempts, ret, entry_stats,
                   inflight, held>>
    /\ UNCHANGED gvars
    /\ UNCHANGED nvars

\* what a backend answers in these behaviours: a failing request or the
\* well-formed object
OverlapOutcomes == {Raise("Timeout"), Return(ObjectText(WellFormedBody))}

\* what a probe sees in these behaviours: an exception or the expected answer
OverlapReplies == {"error", "expected"}

OverlapInit == Constructed(ClockConfigs)

OverlapNext ==
    \/ RouteBegin
    \/ \E id \in IDs, reply \in OverlapReplies : ProbeDone(id, reply)
    \/ GatherDone
    \/ \E remote \in OverlapOutcomes : CallCompletes(remote)
    \/ RouteEnd
    \/ Tick
    \/ OtherBegin
    \/ \E id \in IDs, reply \in OverlapReplies : OtherProbeDone(id, reply)
    \/ OtherGatherDone
    \/ \E remote \in OverlapOutcomes : OtherCallCompletes(remote)
    \/ OtherEnd

\* two coroutines calling analyze_news on the same router, their steps
\* interleaved at the awaits
SpecOverlap == OverlapInit /\ [][OverlapNext]_vars

---------------------------------------------------------------------------
(* reload_config called while a call of analyze_news awaits an adapter *)

\* reload_config is not a coroutine: called by another task while analyze_news
\* is suspended at line 96, it runs from its first line to its last. The
\* running call keeps its list healthy_adapters and the objects in it
ReloadDuringCall(cfg) ==
    /\ pc = "calling"
    /\ reloads < MaxReloads
    /\ config' = cfg
    /\ adapters' = ReloadAdapters(adapters, cfg)
    /\ reloads' = reloads + 1
    /\ instance_of' =
          [id \in IDs |->
              IF _initialize_adapters(cfg)[id].built THEN reloads + 2
              ELSE IF adapters'[id].built THEN instance_of[id] ELSE 0]
    /\ UNCHANGED <<routing_stats, now, pc, current_time, pending, candidates,
                   idx, attempts, ret, entry_stats, verdicts>>
    /\ UNCHANGED ovars
    /\ UNCHANGED nvars

MidReloadInit == Constructed(ClockConfigs)

MidReloadNext ==
    \/ RouteBegin
    \/ \E id \in IDs, reply \in ProbeReplies : ProbeDone(id, reply)
    \/ GatherDone
    \/ \E remote \in OpsOutcomes : CallCompletes(remote)
    \/ RouteEnd
    \/ Tick
    \/ \E cfg \in ClockConfigs : ReloadDuringCall(cfg)

\* calls of analyze_news, one after the other, and reload_config while a call
\* awaits an adapter
SpecMidReload == MidReloadInit /\ [][MidReloadNext]_vars

---------------------------------------------------------------------------
(* One OpenAIAdapter called on its own: analyze_news and its statistics *)

\* OpenAIAdapter.analyze_news (openai_adapter.py:28-62): the request, then
\* _update_usage_stats(True, response_time) when it and the parser returned
\* and _update_usage_stats(False, response_time) in the except branch;
\* neither call passes tokens, so the parameter keeps its default 0. The
\* result returned is not part of the adapter's state.
AdapterAnalyzeNews(reply, response_time) ==
    /\ Len(calls) < MaxCalls
    /\ LET response == _make_api_request(reply)
           success == response.exc = "none"
           after == UpdateUsageStatsTimed(usage_stats, success, response_time, 0)
       IN  /\ usage_stats' = after
           /\ calls' = Append(calls, [reply |-> reply, success |-> success,
                                      response_time |-> response_time,
                                      before |-> usage_stats, after |-> after])
    /\ UNCHANGED <<raw, parsed>>
    /\ UNCHANGED cvars
    /\ UNCHANGED rvars

UsageInit ==
    /\ ParserQuiet
    /\ UsageQuiet
    /\ CacheQuiet
    /\ RouterQuiet

UsageNext ==
    \E reply \in ApiReplies, response_time \in ResponseTimes :
        AdapterAnalyzeNews(reply, response_time)

SpecUsage == UsageInit /\ [][UsageNext]_vars

---------------------------------------------------------------------------
(* CacheManager on its own: set, get, delete, cleanup_expired and the clock *)

\* the state of the router, the clock apart
qvars == <<config, adapters, routing_stats, pc, current_time, pending,
           candidates, idx, attempts, ret, entry_stats, verdicts, reloads,
           instance_of, inflight, refreshes, other, held>>

\* CacheManager.set (lines 105-140): ttl None stands for default_ttl; the
\* entry goes to the memory cache and to its file with expires_at = now +
\* ttl. The data is taken to be serialisable and the directory writable (the
\* except branch is not entered), and the files to stay far below
\* max_size_bytes, so that _cleanup_if_needed deletes nothing.
CacheSet(namespace, key, data, ttl_arg) ==
    LET ttl == IF ttl_arg = NoTtl THEN default_ttl ELSE ttl_arg
        cache_key == _generate_cache_key(namespace, key)
        expires_at == now + ttl
        mem == _add_to_memory_cache(Memory(memory_cache, memory_cache_timestamps),
                                    cache_key, data, now)
    IN  /\ memory_cache' = mem.cache
        /\ memory_cache_timestamps' = mem.timestamps
        /\ cache_files' = [cache_files EXCEPT
                              ![cache_key] = CacheFile(data, now, expires_at)]
        /\ last_set' = [last_set EXCEPT ![cache_key] = SetOf(data, now, ttl)]
        /\ UNCHANGED got
        /\ UNCHANGED now
        /\ UNCHANGED qvars
        /\ UNCHANGED <<raw, parsed>>
        /\ UNCHANGED uvars

\* CacheManager.get (lines 56-103) with default None: an entry of the memory
\* cache younger than default_ttl is returned; an older one is removed. Then
\* the file: one that has not expired is returned and loaded into the memory
\* cache, an expired one is deleted. Otherwise the default.
CacheGet(namespace, key) ==
    LET cache_key == _generate_cache_key(namespace, key)
        mem == Memory(memory_cache, memory_cache_timestamps)
        in_memory == memory_cache[cache_key] # Absent
        timestamp == memory_cache_timestamps[cache_key]
        hit == in_memory /\ now - timestamp < default_ttl
        dropped == IF in_memory THEN _remove_from_memory_cache(mem, cache_key)
                   ELSE mem
        cache_data == cache_files[cache_key]
        valid == cache_data.exists /\ cache_data.expires_at > now
        loaded == _add_to_memory_cache(dropped, cache_key, cache_data.data, now)
        after == IF hit THEN mem ELSE IF valid THEN loaded ELSE dropped
        value == IF hit THEN memory_cache[cache_key]
                 ELSE IF valid THEN cache_data.data
                 ELSE CacheDefault
    IN  /\ memory_cache' = after.cache
        /\ memory_cache_timestamps' = after.timestamps
        /\ cache_files' = IF ~hit /\ cache_data.exists /\ ~valid
                          THEN [cache_files EXCEPT ![cache_key] = NoFile]
                          ELSE cache_files
        /\ got' = GetOf(cache_key, value, now)
        /\ UNCHANGED last_set
        /\ UNCHANGED now
        /\ UNCHANGED qvars
        /\ UNCHANGED <<raw, parsed>>
        /\ UNCHANGED uvars

\* CacheManager.delete (lines 142-160): the key leaves the memory cache and
\* its file is removed
CacheDelete(namespace, key) ==
    LET cache_key == _generate_cache_key(namespace, key)
        mem == _remove_from_memory_cache(
                   Memory(memory_cache, memory_cache_timestamps), cache_key)
    IN  /\ last_set[cache_key].made
        /\ memory_cache' = mem.cache
        /\ memory_cache_timestamps' = mem.timestamps
        /\ cache_files' = [cache_files EXCEPT ![cache_key] = NoFile]
        /\ last_set' = [last_set EXCEPT ![cache_key] = NoSet]
        /\ UNCHANGED got
        /\ UNCHANGED now
        /\ UNCHANGED qvars
        /\ UNCHANGED <<raw, parsed>>
        /\ UNCHANGED uvars

\* CacheManager.cleanup_expired (lines 306-346): the memory entries older
\* than default_ttl and the files past expires_at are removed
CleanupExpired ==
    LET expired_memory_keys ==
            {k \in CacheKeys : /\ memory_cache[k] # Absent
                               /\ now - memory_cache_timestamps[k] > default_ttl}
        expired_files ==
            {k \in CacheKeys : /\ cache_files[k].exists
                               /\ cache_files[k].expires_at < now}
    IN  /\ expired_memory_keys \cup expired_files # {}
        /\ memory_cache' = [k \in CacheKeys |->
               IF k \in expired_memory_keys THEN Absent ELSE memory_cache[k]]
        /\ memory_cache_timestamps' = [k \in CacheKeys |->
               IF k \in expired_memory_keys THEN NoStamp
               ELSE memory_cache_timestamps[k]]
        /\ cache_files' = [k \in CacheKeys |->
               IF k \in expired_files THEN NoFile ELSE cache_files[k]]
        /\ UNCHANGED <<last_set, got>>
        /\ UNCHANGED now
        /\ UNCHANGED qvars
        /\ UNCHANGED <<raw, parsed>>
        /\ UNCHANGED uvars

\* time.time() between two calls on the cache
CacheElapse(d) ==
    /\ now + d <= StartTime + CacheSpan
    /\ now' = now + d
    /\ UNCHANGED qvars
    /\ UNCHANGED nvars

CacheInit ==
    /\ ParserQuiet
    /\ UsageQuiet
    /\ CacheQuiet
    /\ RouterQuiet

CacheNext ==
    \/ \E ns \in Namespaces, k \in EntryKeys, d \in CacheData, t \in Ttls :
           CacheSet(ns, k, d, t)
    \/ \E ns \in Namespaces, k \in EntryKeys : CacheGet(ns, k)
    \/ \E ns \in Namespaces, k \in EntryKeys : CacheDelete(ns, k)
    \/ CleanupExpired
    \/ \E d \in CacheSteps : CacheElapse(d)

SpecCache == CacheInit /\ [][CacheNext]_vars

---------------------------------------------------------------------------
(* The response parser applied to every raw text *)

NotParsed == Raise("NotParsed")

NormInit ==
    /\ raw \in Texts
    /\ parsed = NotParsed
    /\ UsageQuiet
    /\ CacheQuiet
    /\ RouterQuiet

ParseResponse ==
    /\ parsed = NotParsed
    /\ parsed' = _parse_response(raw)
    /\ UNCHANGED raw
    /\ UNCHANGED uvars
    /\ UNCHANGED cvars
    /\ UNCHANGED rvars

NormNext == ParseResponse

SpecNorm == NormInit /\ [][NormNext]_vars

---------------------------------------------------------------------------
(* Claims about the response parser, checked under SpecNorm *)

Parsed == parsed # NotParsed

InUnit(x) == 0 <= x /\ x <= 10

ClosedSentiment(v) == v.ty = "str" /\ \E x \in Sentiments : v.s = <<x>>

\* C6: for every raw text the result of the response parser has impact_score
\* and confidence in [0,1] and a sentiment among positive, negative, neutral.
C6_NormalizerInRange ==
    (Parsed /\ parsed.exc = "none") =>
        /\ InUnit(parsed.res.impact_score)
        /\ InUnit(parsed.res.confidence)
        /\ ClosedSentiment(parsed.res.sentiment)

\* C7: the response parser never raises; it returns a result for every raw
\* text, and the result is the heuristic one whenever the structured decoding
\* found no span or failed.
C7_NormalizerTotal ==
    Parsed =>
        /\ parsed.exc = "none"
        /\ parsed.res.via \in {"structured", "heuristic"}
        /\ (ParseStructured(raw).exc # "none" => parsed.res.via = "heuristic")

\* a decoded object with a null or non-numeric score ends on the heuristic path
C7_Witness ==
    /\ Parsed
    /\ ParseStructured(raw).exc = "TypeError"
    /\ parsed.exc = "none"
    /\ parsed.res.via = "heuristic"

\* the raw text holds an object whose six members are present and in range
HoldsInRangeObject(response) ==
    /\ \E i \in DOMAIN response.skel :
          /\ i + 2 \in DOMAIN response.skel
          /\ SubSeq(response.skel, i, i + 2) = <<LB, AT, RB>>
    /\ LET b == response.body
       IN  /\ b.impact_score.ty = "num" /\ InUnit(b.impact_score.n)
           /\ b.confidence.ty = "num" /\ InUnit(b.confidence.n)
           /\ ClosedSentiment(b.sentiment)
           /\ b.market_prediction.ty = "str" /\ b.market_prediction.s # <<>>
           /\ b.trading_suggestion.ty = "str" /\ b.trading_suggestion.s # <<>>
           /\ b.key_points.ty = "list"

\* C8: when the raw text holds a well-formed object with all six members in
\* range, the parser returns exactly those six values on the structured path.
C8_RoundTrip ==
    (Parsed /\ HoldsInRangeObject(raw)) =>
        /\ parsed.exc = "none"
        /\ parsed.res.via = "structured"
        /\ parsed.res.impact_score = raw.body.impact_score.n
        /\ parsed.res.confidence = raw.body.confidence.n
        /\ parsed.res.sentiment = raw.body.sentiment
        /\ parsed.res.market_prediction = raw.body.market_prediction
        /\ parsed.res.trading_suggestion = raw.body.trading_suggestion
        /\ parsed.res.key_points = raw.body.key_points

OnHeuristicPath == Parsed /\ parsed.exc = "none" /\ parsed.res.via = "heuristic"

\* the impact the claim's three-way rule gives for the marker lists hi and lo
RuleImpact(response, hi, lo) ==
    IF ContainsAny(LowerWords(response), hi) THEN 8
    ELSE IF ContainsAny(LowerWords(response), lo) THEN 3
    ELSE 5

\* C9 as stated: on the heuristic path impact_score is 0.8 if the lowercased
\* text contains significant, major or critical, otherwise 0.3 if it contains
\* minor, limited or small, otherwise 0.5.
C9_AsStated ==
    OnHeuristicPath =>
        parsed.res.impact_score =
            RuleImpact(raw, {"significant", "major", "critical"},
                            {"minor", "limited", "small"})

\* C9 amended: the first list also holds the Chinese marker for "major"
\* (zhongda) and the second the Chinese marker for "slight" (qingwei); the
\* text "significant movement expected" is parsed without an exception, on the
\* heuristic path, with impact_score 0.8.
C9_HeuristicImpact ==
    /\ OnHeuristicPath =>
        parsed.res.impact_score =
            RuleImpact(raw, {"zhongda", "significant", "major", "critical"},
                            {"qingwei", "minor", "limited", "small"})
    /\ (Parsed /\ raw = SignificantText) =>
        /\ parsed.exc = "none"
        /\ parsed.res.via = "heuristic"
        /\ parsed.res.impact_score = 8

\* a text with a high marker in capitals and a low marker gets 0.8
C9_Witness ==
    /\ OnHeuristicPath
    /\ "CRITICAL" \in Range(raw.skel)
    /\ "smaller" \in Range(raw.skel)
    /\ parsed.res.impact_score = 8

---------------------------------------------------------------------------
(* Claims about the router, checked under Spec *)

Returned == pc = "returned"

\* the i-th adapter call of the running call failed in the remote request
RemoteFailed(i) ==
    i <= Len(attempts) /\ attempts[i].remote.exc \in BackendErrors

\* the i-th adapter call got a text whose parsed result passes the validation
NormalizedValid(i) ==
    /\ i <= Len(attempts)
    /\ attempts[i].remote.exc = "none"
    /\ LET r == _parse_response(attempts[i].remote.res)
       IN  r.exc = "none" /\ _is_valid_result(r.res)

\* the adapters called, in the order of the calls
CalledIds == [i \in DOMAIN attempts |-> attempts[i].id]

\* C1: with three candidates, the remote call of the first two failing and the
\* third answering the well-formed object, the call makes exactly three
\* adapter calls, in priority order, and returns the third adapter's result.
\* Stated on the calls made so far: a returned call whose first remote call
\* failed has gone on to the second candidate, one whose first two failed has
\* gone on to the third, and then the third's result is what is returned.
C1_Failover ==
    (Returned /\ Len(candidates) = 3) =>
        /\ RemoteFailed(1) => Len(attempts) >= 2
        /\ (RemoteFailed(1) /\ RemoteFailed(2)) => Len(attempts) >= 3
        /\ ( /\ RemoteFailed(1) /\ RemoteFailed(2) /\ Len(attempts) >= 3
             /\ attempts[3].remote = Return(ObjectText(WellFormedBody)) )
           => /\ CalledIds = candidates
              /\ ret = _parse_response(ObjectText(WellFormedBody))

\* C2: the result a call returns is that of the first candidate, in priority
\* order, whose parsed result passes the validation, and no candidate after
\* that one is called.
C2_FirstValidWins ==
    Returned =>
        /\ CalledIds = SubSeq(candidates, 1, Len(attempts))
        /\ \A i \in DOMAIN attempts : NormalizedValid(i) => i = Len(attempts)
        /\ IF \E i \in DOMAIN attempts : NormalizedValid(i)
           THEN ret = _parse_response(attempts[Len(attempts)].remote.res)
           ELSE ret.exc = "none" /\ ret.res.via = "router_fallback"

\* no backend of the configuration is enabled, built and healthy
NoneEnabledAndHealthy ==
    ~ \E i \in DOMAIN config :
          /\ config[i].enabled
          /\ adapters[config[i].id].built
          /\ adapters[config[i].id]._is_healthy

\* C3: when no backend is both enabled and healthy, the call makes no adapter
\* call, does not raise, returns the fallback result (impact 0.3, neutral,
\* confidence 0.1, key points not empty), and failed_requests grows by one.
C3_TotalFallback ==
    (Returned /\ NoneEnabledAndHealthy) =>
        /\ attempts = <<>>
        /\ ret.exc = "none"
        /\ ret.res.via = "router_fallback"
        /\ ret.res.impact_score = 3
        /\ ret.res.sentiment = Str(<<"neutral">>)
        /\ ret.res.confidence = 1
        /\ ret.res.key_points.ty = "list" /\ ret.res.key_points.s # <<>>
        /\ routing_stats.failed_requests = entry_stats.failed_requests + 1

\* adapters were built and probed, none is healthy, and it is not the first
\* failed call
C3_Witness ==
    /\ Returned
    /\ NoneEnabledAndHealthy
    /\ \E id \in IDs : adapters[id].built
    /\ entry_stats.failed_requests = 1
    /\ routing_stats.failed_requests = 2

C5_ReturnedValid ==
    (Returned /\ ret.exc = "none") =>
        /\ InUnit(ret.res.impact_score)
        /\ InUnit(ret.res.confidence)
        /\ ClosedSentiment(ret.res.sentiment)
        /\ ret.res.market_prediction.ty = "str" /\ ret.res.market_prediction.s # <<>>
        /\ ret.res.trading_suggestion.ty = "str" /\ ret.res.trading_suggestion.s # <<>>

\* a backend answered an object with impact 1.5, the next one a valid object,
\* and the second one's result was returned
C5_Witness ==
    /\ Returned
    /\ Len(attempts) = 2
    /\ attempts[1].remote =
           Return(ObjectText([WellFormedBody EXCEPT !.impact_score = Num(15)]))
    /\ ret.res.via = "structured"

\* the backends that are enabled in the configuration, built, and healthy
Eligible ==
    {id \in IDs : /\ adapters[id].built
                  /\ adapters[id]._is_healthy
                  /\ \E i \in DOMAIN config : config[i].id = id /\ config[i].enabled}

ConfigIndex(id) == CHOOSE i \in DOMAIN config : config[i].id = id

\* C10: the candidate list holds exactly the backends that are enabled, built
\* and healthy, each once, by ascending priority, equal priorities in the order
\* of the configuration.
C10_CandidateList ==
    pc \in {"calling", "returned"} =>
        /\ Range(candidates) = Eligible
        /\ Len(candidates) = Cardinality(Eligible)
        /\ \A i, j \in DOMAIN candidates :
              i < j =>
                 LET a == config[ConfigIndex(candidates[i])]
                     b == config[ConfigIndex(candidates[j])]
                 IN  \/ a.priority < b.priority
                     \/ /\ a.priority = b.priority
                        /\ ConfigIndex(a.id) < ConfigIndex(b.id)

\* the second backend of the file goes first, the other two tie and keep the
\* order of the file
C10_Witness ==
    /\ pc = "calling"
    /\ candidates = <<"m2", "m1", "m3">>
    /\ config[1].priority = 2 /\ config[2].priority = 1 /\ config[3].priority = 2

---------------------------------------------------------------------------
(* Claims about failover and the usage counters, checked under Spec *)

\* the i-th adapter call got a text whose parsed result fails the validation
NormalizedInvalid(i) ==
    /\ i <= Len(attempts)
    /\ attempts[i].remote.exc = "none"
    /\ ~NormalizedValid(i)

\* C11: when the remote call of a candidate succeeds and its parsed result
\* fails the validation, the call does not return that result, a failure is
\* counted for that candidate (its failed_requests grows by one), and the call
\* goes on to the next candidate when there is one.
C11_InvalidSkipped ==
    \A i \in DOMAIN attempts :
        NormalizedInvalid(i) =>
            /\ ~(Returned /\ ret = _parse_response(attempts[i].remote.res))
            /\ attempts[i].after.failed_requests =
                   attempts[i].before.failed_requests + 1
            /\ i < Len(candidates) =>
                   (Len(attempts) > i \/ (pc = "calling" /\ idx = i + 1))

\* every candidate was called and none gave a valid result: the remote call
\* failed, or the parsed result failed the validation
AllTriedNoneValid ==
    /\ candidates # <<>>
    /\ CalledIds = candidates
    /\ \A i \in DOMAIN attempts : RemoteFailed(i) \/ NormalizedInvalid(i)

\* C12: when every candidate of a non-empty list was tried without a valid
\* result, the call returns the fallback result, failed_requests and
\* fallback_count each grow by exactly one, and successful_requests stays.
C12_ExhaustedFallback ==
    (Returned /\ AllTriedNoneValid) =>
        /\ ret = AllFailed
        /\ routing_stats.failed_requests = entry_stats.failed_requests + 1
        /\ routing_stats.fallback_count = entry_stats.fallback_count + 1
        /\ routing_stats.successful_requests = entry_stats.successful_requests

\* C13: within one call every backend gets at most one adapter call, only
\* backends of the call's candidate list get one, and the calls are never
\* more than the backends that are enabled, built and healthy.
C13_OneCallEach ==
    /\ \A i, j \in DOMAIN attempts : attempts[i].id = attempts[j].id => i = j
    /\ Range(CalledIds) \subseteq Range(candidates)
    /\ Len(attempts) <= Cardinality(Range(candidates))
    /\ Len(attempts) <= Cardinality(Eligible)

\* three backends are configured, one was found unhealthy, and the call went
\* through both of the others
C13_Witness ==
    /\ Returned
    /\ Cardinality({id \in IDs : adapters[id].built}) = 3
    /\ Len(candidates) = 2
    /\ Len(attempts) = 2
    /\ ret = AllFailed

\* the i-th adapter call ran to its end (it was not cancelled)
Completed(i) == i <= Len(attempts) /\ attempts[i].remote.exc # "CancelledError"

\* C17: every adapter call of analyze_news that ends, with a success or a
\* failure, adds one to the total_requests of its backend and one to exactly
\* one of successful_requests and failed_requests, so that for every backend
\* total_requests = successful_requests + failed_requests.
C17_UsageCounted ==
    /\ \A id \in IDs :
          adapters[id].usage_stats.total_requests =
              adapters[id].usage_stats.successful_requests
              + adapters[id].usage_stats.failed_requests
    /\ \A i \in DOMAIN attempts :
          Completed(i) =>
              LET b == attempts[i].before
                  a == attempts[i].after
              IN  /\ a.total_requests = b.total_requests + 1
                  /\ \/ /\ a.successful_requests = b.successful_requests + 1
                        /\ a.failed_requests = b.failed_requests
                     \/ /\ a.successful_requests = b.successful_requests
                        /\ a.failed_requests = b.failed_requests + 1
                  /\ adapters[attempts[i].id].usage_stats = a

\* in the second call of the router a backend that has one success counts a
\* failure
C17_Witness ==
    /\ Returned
    /\ \E i \in DOMAIN attempts :
          /\ RemoteFailed(i)
          /\ attempts[i].before.successful_requests = 1
          /\ attempts[i].after.failed_requests = 1
          /\ attempts[i].after.total_requests = 2

---------------------------------------------------------------------------
(* Claims about the health checks, checked under SpecHealth *)

\* a step in which the health check of adapter id sends its request
ProbeIssued(id) == verdicts[id] \notin ProbeReplies /\ verdicts'[id] \in ProbeReplies

\* C14: two health checks of the same backend within the window of 300 s
\* send one request: a health check that comes less than 300 s after the
\* backend's last one sends none and answers with the cached verdict.
C14_OneProbePerWindow ==
    [][\A id \in IDs :
          ProbeIssued(id) =>
              now - adapters[id]._last_health_check >= HealthCheckWindow]_vars

\* the adapters the router holds
Built == {id \in IDs : adapters[id].built}

\* C15: force_health_check does not look at cached verdicts: whenever it is
\* called, also right after a refresh, every backend the router holds an
\* adapter for is probed anew, and when the call returns each one's
\* _is_healthy is the verdict of that probe.
C15_ForceProbesAll ==
    pc = "forced" =>
        \A id \in Built :
            /\ verdicts[id] \in ProbeReplies
            /\ adapters[id]._is_healthy = ProbeVerdict(TypeOf(id), verdicts[id])
            /\ adapters[id]._last_health_check = now

\* a forced check within 300 s of the router's last refresh turned a healthy
\* backend unhealthy
C15_Witness ==
    /\ pc = "forced"
    /\ routing_stats.last_health_check = now
    /\ \E id \in Built :
          /\ verdicts[id] = "error"
          /\ ~adapters[id]._is_healthy
          /\ adapters[id].usage_stats.successful_requests > 0

\* a gather of health checks is running, or that of force_health_check is over
Refreshing == pc \in {"probing", "forcing", "forced"}

\* C16: in a refresh the probes are independent: a probe that raises, times
\* out or answers false makes its own backend unhealthy and no other; every
\* backend whose probe has ended has the flag its own probe gave, every
\* backend whose probe has not ended has the flag it had and is still to be
\* probed; the refresh does not raise.
C16_ProbesIndependent ==
    Refreshing =>
        /\ pending \subseteq Built
        /\ \A id \in Built \ pending :
              /\ verdicts[id] \in ProbeReplies
              /\ adapters[id]._is_healthy = ProbeVerdict(TypeOf(id), verdicts[id])
        /\ \A id \in pending :
              /\ verdicts[id] \in {"was_healthy", "was_unhealthy"}
              /\ adapters[id]._is_healthy = (verdicts[id] = "was_healthy")
        /\ ret = NotReturned

\* three probes have ended: the first raised, the second gave an empty text,
\* the third answered as expected and its backend is healthy
C16_Witness ==
    /\ pc = "probing"
    /\ pending = {}
    /\ verdicts = [m1 |-> "error", m2 |-> "empty", m3 |-> "expected"]
    /\ ~adapters["m1"]._is_healthy
    /\ ~adapters["m2"]._is_healthy
    /\ adapters["m3"]._is_healthy

---------------------------------------------------------------------------
(* Claims about construction and reload_config, checked under SpecReload *)

\* a descriptor the router can build an adapter from
UsableDescriptor(m) ==
    /\ m.enabled
    /\ m.type \in {"openai", "claude", "gemini", "openrouter", "grok"}
    /\ m.api_key # ""
    /\ m.base_url # ""
    /\ m.model # ""

UsableIn(cfg, id) == \E i \in DOMAIN cfg : cfg[i].id = id /\ UsableDescriptor(cfg[i])

\* C18: after reload_config the router holds a newly built adapter for each
\* usable backend of the new configuration and no adapter from before, and
\* the runtime state of every backend (usage counters, healthy flag, time of
\* the last health check) has its initial value.
C18_ReloadRebuilds ==
    pc = "reloaded" =>
        \A id \in IDs :
            /\ adapters[id].built <=> UsableIn(config, id)
            /\ instance_of[id] = IF adapters[id].built THEN reloads + 1 ELSE 0
            /\ adapters[id].usage_stats = UsageStats
            /\ adapters[id].built =>
                  /\ adapters[id]._is_healthy
                  /\ adapters[id]._last_health_check = 0

\* the router had refreshed the health flags and returned a backend's result
\* before the reload; now it holds a new adapter for one backend and none for
\* another
C18_Witness ==
    /\ pc = "reloaded"
    /\ reloads = 1
    /\ routing_stats.successful_requests >= 1
    /\ routing_stats.last_health_check # 0
    /\ \E id \in IDs : adapters[id].built /\ instance_of[id] = 2
    /\ \E id \in IDs : ~adapters[id].built

---------------------------------------------------------------------------
(* The claim about cancellation, checked under SpecHealth *)

\* the i-th adapter call was cancelled while its remote request was awaited
Cancelled(i) == i <= Len(attempts) /\ attempts[i].remote.exc = "CancelledError"

\* C20: when a call of analyze_news is cancelled, the adapter call it was
\* awaiting is cancelled with it and no adapter call to a later candidate is
\* started: a cancelled adapter call is the last call of its analyze_news,
\* which ends there with the CancelledError.
C20_CancelStopsCalls ==
    /\ \A i \in DOMAIN attempts :
          Cancelled(i) => (i = Len(attempts) /\ pc = "cancelled")
    /\ pc = "cancelled" =>
          /\ ret = Raise("CancelledError")
          /\ pending = {}
          /\ \/ attempts = <<>> /\ candidates = <<>>
             \/ /\ Cancelled(Len(attempts))
                /\ CalledIds = SubSeq(candidates, 1, Len(attempts))

\* the first of three candidates gave a result that was rejected, the call
\* was cancelled while the second was awaited, the third was never called
C20_Witness ==
    /\ pc = "cancelled"
    /\ Len(candidates) = 3
    /\ Len(attempts) = 2
    /\ NormalizedInvalid(1)
    /\ Cancelled(2)

---------------------------------------------------------------------------
(* The claim about the adapter calls of one call, checked under SpecHealth *)

\* C21: within one call of analyze_news at most one adapter call is
\* outstanding: while the loop awaits the adapter at position idx, that call is
\* the only one that has begun and not ended, and the calls of all the adapters
\* before it have ended (they are the entries of attempts); outside the loop
\* no adapter call is outstanding.
C21_OneCallOutstanding ==
    /\ Cardinality(inflight) <= 1
    /\ pc = "calling" =>
          /\ inflight = {candidates[idx]}
          /\ Len(attempts) = idx - 1
          /\ \A i \in DOMAIN attempts : attempts[i].id = candidates[i]
    /\ pc # "calling" => inflight = {}

\* the loop awaits its second adapter after the call of the first one ended
C21_Witness ==
    /\ pc = "calling"
    /\ idx = 2
    /\ Len(attempts) = 1
    /\ inflight = {candidates[2]}
    /\ candidates[1] # candidates[2]

---------------------------------------------------------------------------
(* The claim about the usage statistics and the routing, checked under     *)
(* SpecReload                                                              *)

\* usage statistics another run may have reached: adapter busy has made five
\* calls, three of them successful, with an average latency of seven seconds;
\* the other adapters have made none
UsedUsage == [total_requests |-> 5, successful_requests |-> 3,
              failed_requests |-> 2, total_tokens |-> 0,
              avg_response_time |-> 7]

UnusedUsage == [total_requests |-> 0, successful_requests |-> 0,
                failed_requests |-> 0, total_tokens |-> 0,
                avg_response_time |-> 0]

UsageVariants ==
    {[id \in IDs |-> IF id = busy THEN UsedUsage ELSE UnusedUsage] :
        busy \in IDs}

\* the adapters of this run with the usage statistics u
WithUsage(ads, u) == [id \in IDs |-> [ads[id] EXCEPT !.usage_stats = u[id]]]

\* what the backend of the i-th candidate answered in this call
ResponseOf(i) == attempts[i].remote

\* what the call returns, from the candidate list and the backends' answers
\* alone: the first result that passes the validation, or the fallback result
RECURSIVE OutcomeFrom(_)
OutcomeFrom(i) ==
    IF i > Len(candidates) THEN AllFailed
    ELSE IF i > Len(attempts) THEN NotReturned
    ELSE LET r == AdapterAnalyze(ResponseOf(i))
         IN  IF r.exc = "none" /\ _is_valid_result(r.res) THEN r
             ELSE OutcomeFrom(i + 1)

\* C22: the usage statistics do not influence the routing. The candidate list
\* of a call is the list the router builds from the same configuration and
\* health flags with any other usage counters and average latencies; the
\* adapters are called in the order of that list; and the result returned is
\* fixed by that list and the backends' answers.
C22_UsageDoesNotRoute ==
    pc \in {"calling", "returned"} =>
        /\ \A u \in UsageVariants :
              HealthyAdapters(config, WithUsage(adapters, u)) = candidates
        /\ CalledIds = SubSeq(candidates, 1, Len(attempts))
        /\ Returned =>
              ret = IF candidates = <<>> THEN NoneAvailable ELSE OutcomeFrom(1)

\* a call lists again, and in the same order, two adapters of which the first
\* has counted a call in an earlier call of the router and the second has not
C22_Witness ==
    /\ pc = "calling"
    /\ Len(candidates) >= 2
    /\ adapters[candidates[1]].usage_stats.total_requests >= 1
    /\ adapters[candidates[2]].usage_stats.total_requests = 0
    /\ attempts = <<>>

---------------------------------------------------------------------------
(* The claim about the 300 s window, checked under SpecClock *)

LastRefresh == refreshes[Len(refreshes)]

\* the running call has made no health check of its own
NoRefreshInCall == LastRefresh.by # "call"

\* C23: a call of analyze_news runs the health checks before it builds its
\* list if and only if more than 300 seconds have passed since the last health
\* checks of the router began, and the first call always runs them. So every
\* run of the health checks begins more than 300 s after the one before it; a
\* running call has the last run at most 300 s before its own beginning; and a
\* call that runs none starts no probe (no health-check task exists during
\* the call) and lists the adapters whose flag is set.
C23_RefreshWhenStale ==
    /\ \A i \in DOMAIN refreshes :
          i > 1 => refreshes[i].at - refreshes[i - 1].at > HealthCheckWindow
    /\ pc \in {"probing", "calling", "returned"} =>
          /\ refreshes # <<>>
          /\ current_time - LastRefresh.at <= HealthCheckWindow
          /\ NoRefreshInCall =>
                /\ pc # "probing"
                /\ pending = {}
                /\ verdicts = NoVerdicts
                /\ candidates = HealthyAdapters(config, adapters)

\* a call that begins exactly 300 s after the last health checks began runs
\* none and calls an adapter
C23_Witness ==
    /\ pc = "calling"
    /\ refreshes # <<>>
    /\ current_time - LastRefresh.at = HealthCheckWindow
    /\ entry_stats.total_requests >= 1

---------------------------------------------------------------------------
(* Claims about the span the parser decodes and about the heuristic result, *)
(* checked under SpecNorm                                                   *)

\* the raw text is a well-formed result object followed by further text that
\* holds a closing brace
ObjectThenClosingBrace(response) ==
    /\ Len(response.skel) > 3
    /\ SubSeq(response.skel, 1, 3) = <<LB, AT, RB>>
    /\ \E j \in 4..Len(response.skel) : response.skel[j] = RB
    /\ response.body = WellFormedBody

\* C24: a raw text made of a well-formed result object followed by further
\* text that holds a closing brace is decoded from its first balanced {...}
\* span: the result comes from the structured path, with the values of the
\* object, and not from the heuristic path.
C24_FirstBalancedSpan ==
    (Parsed /\ ObjectThenClosingBrace(raw)) =>
        /\ parsed.exc = "none"
        /\ parsed.res.via # "heuristic"
        /\ parsed.res.via = "structured"
        /\ parsed.res.impact_score = WellFormedBody.impact_score.n
        /\ parsed.res.market_prediction = WellFormedBody.market_prediction

\* C25: for every raw text, the empty one included, the result of the
\* heuristic path passes the validation of the router (numerics in [0,1],
\* sentiment in the closed set, market_prediction and trading_suggestion not
\* empty).
C25_HeuristicValid ==
    OnHeuristicPath => _is_valid_result(parsed.res)

---------------------------------------------------------------------------
(* The claim about the probe before the first call, checked under SpecReload *)

\* the adapter object has been probed since it was built (health_check sets
\* _last_health_check, which __init__ leaves at 0), and its last probe passed
ProbedAndPassed(h) == h._last_health_check > 0 /\ h._is_healthy

\* C26: analyze_news never calls an adapter object that has not passed a
\* health probe since it was constructed, by __init__ or by reload_config:
\* every adapter called in the running call, and the one being awaited, has
\* been probed since its construction and passed.
C26_ProbedBeforeCalled ==
    /\ \A i \in DOMAIN attempts : ProbedAndPassed(attempts[i].health_before)
    /\ pc = "calling" => ProbedAndPassed(HealthOf(adapters[candidates[idx]]))

---------------------------------------------------------------------------
(* The claim about the counters of the router, checked under Spec *)

\* C27: once every call of analyze_news made so far has returned, the counters
\* of the router satisfy total_requests = successful_requests +
\* failed_requests and fallback_count <= failed_requests, and the call that
\* has just returned has raised total_requests by exactly one (while a call
\* runs it is counted in total_requests and in neither of the other two).
C27_CountersAddUp ==
    LET s == routing_stats
    IN  /\ pc \in {"idle", "returned"} =>
              /\ s.total_requests = s.successful_requests + s.failed_requests
              /\ s.fallback_count <= s.failed_requests
        /\ pc = "returned" =>
              s.total_requests = entry_stats.total_requests + 1
        /\ pc \in {"probing", "calling"} =>
              /\ s.total_requests = entry_stats.total_requests + 1
              /\ s.total_requests =
                    s.successful_requests + s.failed_requests + 1

\* two calls have returned, one with the fallback result after every adapter
\* was tried and one for want of a healthy adapter
C27_Witness ==
    /\ pc = "returned"
    /\ routing_stats.total_requests = 2
    /\ routing_stats.successful_requests = 0
    /\ routing_stats.failed_requests = 2
    /\ routing_stats.fallback_count = 1

---------------------------------------------------------------------------
(* The claim about what a failing adapter call leaves alone, checked under *)
(* SpecHealth                                                              *)

\* the adapter had counted a call before the running call of analyze_news
\* began
CalledEarlier(id) ==
    IF \E i \in DOMAIN attempts : attempts[i].id = id
    THEN \A i \in DOMAIN attempts :
            attempts[i].id = id => attempts[i].before.total_requests >= 1
    ELSE adapters[id].built /\ adapters[id].usage_stats.total_requests >= 1

\* C28: an adapter call that fails, or whose result fails the validation,
\* leaves the adapter's _is_healthy and _last_health_check as they were, for
\* the rest of the call as well; so in a later call that runs no health check
\* an adapter called before is listed again unless a probe has cleared its
\* flag.
C28_CallLeavesHealth ==
    /\ \A i \in DOMAIN attempts :
          (RemoteFailed(i) \/ NormalizedInvalid(i)) =>
              /\ attempts[i].health_after = attempts[i].health_before
              /\ HealthOf(adapters[attempts[i].id]) = attempts[i].health_before
              /\ attempts[i].health_before._is_healthy
    /\ (pc \in {"calling", "returned"} /\ refreshes # <<>> /\ NoRefreshInCall) =>
          \A id \in IDs :
              (CalledEarlier(id) /\ adapters[id]._is_healthy) =>
                  \E i \in DOMAIN candidates : candidates[i] = id

\* a call that runs no health check awaits, as its first adapter, one whose
\* remote request failed in an earlier call
C28_Witness ==
    /\ pc = "calling"
    /\ idx = 1
    /\ refreshes # <<>>
    /\ NoRefreshInCall
    /\ adapters[candidates[1]].usage_stats.failed_requests >= 1

---------------------------------------------------------------------------
(* The claim about the recovery of an unhealthy adapter, checked under     *)
(* SpecHealth                                                              *)

\* C29: the health checks a call of analyze_news runs after the window has
\* expired make a task for every adapter that is built, the unhealthy ones
\* included; once they are done, every adapter whose probe passed is marked
\* healthy, whatever its flag was; and the list the call goes on with holds
\* every listed adapter that is marked healthy.
C29_RefreshProbesAll ==
    /\ pc = "probing" =>
          /\ LastRefresh.by = "call"
          /\ LastRefresh.targets = Built
          /\ \A id \in Built : verdicts[id] # "none"
          /\ pending = {id \in Built : verdicts[id] \notin ProbeReplies}
    /\ (pc = "probing" /\ pending = {}) =>
          \A id \in Built :
              adapters[id]._is_healthy = ProbeVerdict(TypeOf(id), verdicts[id])
    /\ (pc \in {"calling", "returned"} /\ refreshes # <<>>
            /\ LastRefresh.by = "call") =>
          candidates = HealthyAdapters(config, adapters)

\* the only adapter was unhealthy in the first call, which returned for want
\* of a healthy adapter; the second call has run the health checks and awaits
\* that adapter
C29_Witness ==
    /\ pc = "calling"
    /\ Built = {"m1"}
    /\ entry_stats.total_requests = 1
    /\ entry_stats.failed_requests = 1
    /\ entry_stats.fallback_count = 0
    /\ LastRefresh.by = "call"
    /\ candidates = <<"m1">>

---------------------------------------------------------------------------
(* The claim about two calls at once, checked under SpecOverlap *)

\* both coroutines are inside analyze_news
Overlapping == pc # "idle" /\ other.pc # "idle"

\* C30: when two calls of analyze_news overlap while the cached health state
\* is stale, the health checks run once: no adapter gets a task from two runs
\* of _perform_health_checks that begin within one window of each other.
C30_OneRefreshPerExpiry ==
    \A i, j \in DOMAIN refreshes :
        (i < j /\ refreshes[j].at - refreshes[i].at <= HealthCheckWindow) =>
            refreshes[i].targets \cap refreshes[j].targets = {}

---------------------------------------------------------------------------
(* The claim about reload_config during a call, checked under SpecMidReload *)

\* the adapter call that began when the i-th one ended (the i+1-th of the
\* running call) is made on an object built before the last reload_config
\* that had run by then
OnStaleInstance(i) ==
    /\ i + 1 <= Len(candidates)
    /\ (i < Len(attempts) \/ pc = "calling")
    /\ held[candidates[i + 1]] < attempts[i].reloads + 1

\* C31: when reload_config runs while a call of analyze_news awaits an
\* adapter, the call makes no further adapter call on an object constructed
\* before the reload: every adapter call that begins after the one awaited
\* is made on an object of the construction round current at that time.
C31_NoCallOnOldInstance ==
    \A i \in DOMAIN attempts : ~OnStaleInstance(i)

---------------------------------------------------------------------------
(* Claims about the usage statistics of an adapter, checked under SpecUsage *)

\* the token usage a reply reports
TokensReported(reply) ==
    IF reply.usage.present THEN reply.usage.total_tokens ELSE 0

\* C32: every successful call of analyze_news raises the adapter's
\* total_tokens by the token usage the reply of that call reported, and a
\* failed call leaves total_tokens as it was.
C32_TokensAccumulate ==
    \A i \in DOMAIN calls :
        calls[i].after.total_tokens =
            calls[i].before.total_tokens
                + (IF calls[i].success THEN TokensReported(calls[i].reply) ELSE 0)

---------------------------------------------------------------------------
(* Claims about the heuristic sentiment and preview and about the defaults
   of the structured path, checked under SpecNorm *)

\* the sentiment the three-way rule gives for the marker lists pos and neg
RuleSentiment(response, pos, neg) ==
    IF ContainsAny(LowerWords(response), pos) THEN "positive"
    ELSE IF ContainsAny(LowerWords(response), neg) THEN "negative"
    ELSE "neutral"

\* C33 as stated: on the heuristic path sentiment is positive if the
\* lowercased text contains positive or bullish, otherwise negative if it
\* contains negative or bearish, otherwise neutral.
C33_AsStated ==
    OnHeuristicPath =>
        parsed.res.sentiment =
            Str(<<RuleSentiment(raw, {"positive", "bullish"},
                                     {"negative", "bearish"})>>)

\* C33 amended: the first list also holds the Chinese marker for "positive"
\* (jiji) and "up", the second the Chinese marker for "negative" (xiaoji) and
\* "down"; a marker counts wherever it occurs in the lowercased text, inside
\* a longer word too.
C33_HeuristicSentiment ==
    OnHeuristicPath =>
        parsed.res.sentiment =
            Str(<<RuleSentiment(raw, {"jiji", "positive", "bullish", "up"},
                                     {"xiaoji", "negative", "bearish", "down"})>>)

\* a text with a negative marker before a positive one is positive
C33_Witness ==
    /\ OnHeuristicPath
    /\ Len(raw.skel) >= 2
    /\ raw.skel[1] = "bearish"
    /\ raw.skel[2] = "upgrade"
    /\ parsed.res.sentiment = Str(<<"positive">>)

\* C34: on the heuristic path market_prediction is made of a prefix of the
\* raw text, is never longer than 300 characters in all, and ends with an
\* ellipsis when the raw text was cut.
C34_PreviewWithinLimit ==
    OnHeuristicPath =>
        LET preview == parsed.res.market_prediction
            cut == StrLen(raw.skel) > PreviewLimit
        IN  /\ preview.ty = "str"
            /\ preview.n <= PreviewLimit
            /\ cut => /\ preview.s # <<>>
                      /\ preview.s[Len(preview.s)] = "..."
            /\ ~cut => preview.s = raw.skel

\* what json.loads made of the span the parser took
Decoded(response) ==
    json_loads(json_match(response.skel).span, response.body).data

OnStructuredPath == Parsed /\ parsed.exc = "none" /\ parsed.res.via = "structured"

\* the member key of the decoded object, or default when the object lacks it
PresentOr(response, key, default) ==
    IF Decoded(response)[key].ty = "missing" THEN default
    ELSE Decoded(response)[key]

\* C35: when the span decodes and the numbers convert, a result member the
\* object lacks has its default (impact_score 0.5, sentiment neutral,
\* confidence 0.5, key_points the empty list, the two texts empty), and a
\* member the object has keeps the object's value.
C35_DefaultsFilled ==
    OnStructuredPath =>
        /\ parsed.res.impact_score = PresentOr(raw, "impact_score", Num(5)).n
        /\ parsed.res.confidence = PresentOr(raw, "confidence", Num(5)).n
        /\ parsed.res.sentiment = PresentOr(raw, "sentiment", Str(<<"neutral">>))
        /\ parsed.res.key_points = PresentOr(raw, "key_points", Lst(<<>>))
        /\ parsed.res.market_prediction = PresentOr(raw, "market_prediction", Str(<<>>))
        /\ parsed.res.trading_suggestion = PresentOr(raw, "trading_suggestion", Str(<<>>))

\* an object without sentiment whose impact_score is 0: the result has
\* neutral and keeps the 0 and the object's confidence
C35_Witness ==
    /\ OnStructuredPath
    /\ raw.body.sentiment = Missing
    /\ raw.body.impact_score = Num(0)
    /\ parsed.res.sentiment = Str(<<"neutral">>)
    /\ parsed.res.impact_score = 0
    /\ parsed.res.confidence = raw.body.confidence.n

---------------------------------------------------------------------------
(* Claim about CacheManager, checked under SpecCache *)

\* the last get was made more than ttl seconds after the last set of its key
GotAfterExpiry ==
    /\ got.made
    /\ last_set[got.cache_key].made
    /\ got.at > last_set[got.cache_key].at + last_set[got.cache_key].ttl

\* C36: get never returns an expired entry: a get made more than ttl seconds
\* after the set of its key returns the default, whatever the ttl was, one
\* shorter than default_ttl included.
C36_NoExpiredEntry ==
    GotAfterExpiry => got.value = CacheDefault

---------------------------------------------------------------------------
(* Claim about the average response time of an adapter, checked under
   SpecUsage *)

\* the successful calls among cs, and the sum of their response times
RECURSIVE SuccessCount(_)
SuccessCount(cs) ==
    IF cs = <<>> THEN 0
    ELSE (IF Head(cs).success THEN 1 ELSE 0) + SuccessCount(Tail(cs))

RECURSIVE SuccessTime(_)
SuccessTime(cs) ==
    IF cs = <<>> THEN 0
    ELSE (IF Head(cs).success THEN Head(cs).response_time ELSE 0)
             + SuccessTime(Tail(cs))

\* the fraction avg equals total / n
IsMeanOf(avg, total, n) == avg[2] > 0 /\ avg[1] * n = total * avg[2]

\* C37: after any sequence of calls avg_response_time is the arithmetic mean
\* of the response times of the successful calls, and 0 when there are none;
\* a failed call leaves avg_response_time and successful_requests as they
\* were.
C37_AverageIsMean ==
    /\ usage_stats.successful_requests = SuccessCount(calls)
    /\ IF SuccessCount(calls) = 0
       THEN usage_stats.avg_response_time[1] = 0
       ELSE IsMeanOf(usage_stats.avg_response_time, SuccessTime(calls),
                     SuccessCount(calls))
    /\ \A i \in DOMAIN calls :
          ~calls[i].success =>
              /\ calls[i].after.avg_response_time = calls[i].before.avg_response_time
              /\ calls[i].after.successful_requests
                     = calls[i].before.successful_requests

\* a fast success, a failure and a slow success: the average is the mean of
\* the two successes, 0.55 s
C37_Witness ==
    /\ Len(calls) = 3
    /\ calls[1].success /\ calls[1].response_time = 2
    /\ ~calls[2].success /\ calls[2].response_time = 9
    /\ calls[3].success /\ calls[3].response_time = 9
    /\ usage_stats.successful_requests = 2
    /\ usage_stats.avg_response_time[1] * 2 = 11 * usage_stats.avg_response_time[2]

====
